---- MODULE Spec2Model ----
(***************************************************************************)
(* eslint-seatbelt: the ratchet store (SeatbeltFile) and the ESLint        *)
(* processor (SeatbeltProcessor.postprocess) that reconciles the observed  *)
(* per-rule error counts of one linted file against the stored allowances. *)
(*                                                                         *)
(* One process, one record file.  A Map<RuleId, number> is modelled as a   *)
(* function whose domain is the set of keys; Map iteration order is not    *)
(* tracked, rules are visited in the order of RuleOrder.                   *)
(***************************************************************************)
EXTENDS Integers, Sequences, FiniteSets, TLC

\* ------------------------------------------------------------------ bounds
\* largest allowance found in the record file at start-up
MaxCount == 2
\* largest number of diagnostics ESLint reports for one file
MaxMessages == 2
\* number of files ESLint lints in one run of the process
MaxFiles == 1
\* number of updateMaxErrors calls a direct user of SeatbeltFile makes
MaxCalls == 1

\* ---------------------------------------------------------------- universe
RuleOrder == <<"rule-a", "rule-b", "rule-c">>
Rules == {RuleOrder[i] : i \in 1..Len(RuleOrder)}
FileOrder == <<"src/f1.ts", "src/f2.ts">>
Files == {FileOrder[i] : i \in 1..Len(FileOrder)}
\* the file the bounded initial record files range over in full
MainFile == FileOrder[1]
OtherFile == FileOrder[2]

RuleIndex(r) == CHOOSE i \in 1..Len(RuleOrder) : RuleOrder[i] = r
FileIndex(f) == CHOOSE i \in 1..Len(FileOrder) : FileOrder[i] = f

NullRule == "null"
EmptyMap == [r \in {} |-> 0]

\* ------------------------------------------------------------ SeatbeltArgs
\* "all" | Set<RuleId>
RuleSetAll == [all |-> TRUE, rules |-> {}]
RuleSetOf(S) == [all |-> FALSE, rules |-> S]

ruleSetHas(ruleSet, ruleId) == ruleSet.all \/ ruleId \in ruleSet.rules

\* the rules ESLint runs in this configuration; the last rule of RuleOrder
\* is known but not enabled (the case keepRules exists for)
LintRules == {RuleOrder[i] : i \in 1..(Len(RuleOrder) - 1)}
DisabledRule == RuleOrder[Len(RuleOrder)]

\* the policies linted with: keepRules names the disabled rule, nothing or
\* everything; allowIncreaseRules names the first rule, nothing or everything
KeepRuleSets == {RuleSetOf({}), RuleSetOf({DisabledRule}), RuleSetAll}
IncreaseRuleSets == {RuleSetOf({}), RuleSetOf({RuleOrder[1]}), RuleSetAll}

AllArgs ==
  [keepRules : KeepRuleSets, allowIncreaseRules : IncreaseRuleSets,
   frozen : BOOLEAN, disable : BOOLEAN, threadsafe : BOOLEAN, verbose : BOOLEAN]

\* verbose is varied where the code branches on it (keepRules = "all"),
\* disable with the options that do not touch the record file
SeatbeltArgs ==
  {a \in AllArgs :
     /\ a.verbose => (a.keepRules.all /\ ~a.threadsafe
                      /\ a.allowIncreaseRules = RuleSetOf({}))
     /\ a.disable => (~a.threadsafe /\ ~a.verbose /\ a.keepRules = RuleSetOf({}))}

\* SeatbeltArgs.fromConfig of the empty configuration, no environment set
fromConfig ==
  [keepRules |-> RuleSetOf({}), allowIncreaseRules |-> RuleSetOf({}),
   frozen |-> FALSE, disable |-> FALSE, threadsafe |-> FALSE, verbose |-> FALSE]

\* --------------------------------------------------------------- the codec
\* a decoded line; its encoded text is identified with the triple
SeatbeltFileLine(f, r, n) == [filename |-> f, ruleId |-> r, maxErrors |-> n]

\* Digits of the decimal numeral of n, most significant first
RECURSIVE Digits(_)
Digits(n) == IF n < 10 THEN <<n>> ELSE Append(Digits(n \div 10), n % 10)

\* s < t for the numerals, compared as text
RECURSIVE TextLess(_, _)
TextLess(s, t) ==
  IF s = <<>> THEN t # <<>>
  ELSE IF t = <<>> THEN FALSE
  ELSE IF Head(s) # Head(t) THEN Head(s) < Head(t)
  ELSE TextLess(Tail(s), Tail(t))

\* order of two encoded lines: "<file>"\t"<rule>"\t<count>\n compared as text
EncodedLess(l1, l2) ==
  IF l1.filename # l2.filename THEN FileIndex(l1.filename) < FileIndex(l2.filename)
  ELSE IF l1.ruleId # l2.ruleId THEN RuleIndex(l1.ruleId) < RuleIndex(l2.ruleId)
  ELSE TextLess(Digits(l1.maxErrors), Digits(l2.maxErrors))

\* parseMaxErrors: later lines win
RECURSIVE parseMaxErrors(_)
parseMaxErrors(lines) ==
  IF lines = <<>> THEN EmptyMap
  ELSE LET front == parseMaxErrors(SubSeq(lines, 1, Len(lines) - 1))
           last == lines[Len(lines)]
       IN [r \in DOMAIN front \cup {last.ruleId} |->
             IF r = last.ruleId THEN last.maxErrors ELSE front[r]]

\* the lines of one file's map, sorted by ruleId
RECURSIVE LinesOfMap(_, _, _)
LinesOfMap(f, m, i) ==
  IF i > Len(RuleOrder) THEN <<>>
  ELSE (IF RuleOrder[i] \in DOMAIN m
        THEN <<SeatbeltFileLine(f, RuleOrder[i], m[RuleOrder[i]])>>
        ELSE <<>>) \o LinesOfMap(f, m, i + 1)

\* SeatbeltFileData: lines as decoded, maxErrors materialised on first access
FileState(lines, cached, maxErrors) ==
  [lines |-> lines, cached |-> cached, maxErrors |-> maxErrors]

\* SeatbeltFile.parse: group the data lines by file, nothing materialised
parse(text) ==
  LET names == {text[i].filename : i \in 1..Len(text)}
  IN [f \in names |->
        FileState(SelectSeq(text, LAMBDA l : l.filename = f), FALSE, EmptyMap)]

\* what toDataString leaves in fileState.lines
linesAfterSerialize(d) ==
  [f \in DOMAIN d |->
     IF d[f].cached
     THEN [d[f] EXCEPT !.lines = LinesOfMap(f, d[f].maxErrors, 1)]
     ELSE d[f]]

RECURSIVE AllLines(_, _)
AllLines(d, i) ==
  IF i > Len(FileOrder) THEN <<>>
  ELSE (IF FileOrder[i] \in DOMAIN d THEN d[FileOrder[i]].lines ELSE <<>>)
         \o AllLines(d, i + 1)

\* SeatbeltFile.toDataString: the data lines, sorted as text
toDataString(d) == SortSeq(AllLines(linesAfterSerialize(d), 1), EncodedLess)

\* getMaxErrors that parses fileState.lines on every access
materializeAlways(d, f) ==
  IF f \in DOMAIN d
  THEN [d EXCEPT ![f] = FileState(d[f].lines, TRUE, parseMaxErrors(d[f].lines))]
  ELSE d

\* SeatbeltFile.getMaxErrors: the state after the lazy materialisation ...
materialize(d, f) ==
  IF f \in DOMAIN d /\ ~d[f].cached
  THEN [d EXCEPT ![f] = FileState(d[f].lines, TRUE, parseMaxErrors(d[f].lines))]
  ELSE d

\* ... and the mapping it returns; has = FALSE stands for undefined
getMaxErrors(d, f) ==
  IF f \in DOMAIN d
  THEN [has |-> TRUE, map |-> materialize(d, f)[f].maxErrors]
  ELSE [has |-> FALSE, map |-> EmptyMap]

\* the allowance of (file, rule) with an absent record counted as 0
Allowance(d, f, r) ==
  LET m == getMaxErrors(d, f).map IN IF r \in DOMAIN m THEN m[r] ELSE 0


\* --------------------------------------------------- SeatbeltFile (updates)
\* ShouldSet without the ratchet: any differing count is stored
ShouldSetAnyChange(args, ruleId, errorCount, maxErrorCount) ==
  errorCount # maxErrorCount

\* the condition under which updateMaxErrors stores the observed count
ShouldSet(args, ruleId, errorCount, maxErrorCount) ==
  errorCount < maxErrorCount \/ ruleSetHas(args.allowIncreaseRules, ruleId)

\* ShouldRemove without the keepRules check
ShouldRemoveUnkept(args, ruleToErrorCount, ruleId, maxErrorCount) ==
  maxErrorCount = 0 \/ ruleId \notin DOMAIN ruleToErrorCount

\* the condition under which the removal pass drops a recorded rule
ShouldRemove(args, ruleToErrorCount, ruleId, maxErrorCount) ==
  /\ maxErrorCount = 0 \/ ruleId \notin DOMAIN ruleToErrorCount
  /\ ~ruleSetHas(args.keepRules, ruleId)

\* ShouldCommit without the test of `changed`: every non-frozen update installs
\* the file's map and sets the dirty flag
ShouldCommitAlways(args, isChanged) == ~args.frozen

\* whether the computed change is committed to the store (file.maxErrors
\* assigned, dirty flag set)
ShouldCommit(args, isChanged) == isChanged /\ ~args.frozen

\* SeatbeltFile.updateMaxErrors on store contents d with dirty flag ch.
\* maxErrors is the Map object held by the file's state when the file has
\* one (every set/delete on it is a change of the store) and a fresh Map
\* otherwise (installed only by the final assignment).
updateMaxErrors(d, ch, filename, args, ruleToErrorCount) ==
  LET d1 == materialize(d, filename)
      hasFile == filename \in DOMAIN d1
      maxErrors == IF hasFile THEN d1[filename].maxErrors ELSE EmptyMap
      old(r) == IF r \in DOMAIN maxErrors THEN maxErrors[r] ELSE 0
      setRules == {r \in DOMAIN ruleToErrorCount :
                     /\ ruleToErrorCount[r] # old(r)
                     /\ ShouldSet(args, r, ruleToErrorCount[r], old(r))}
      afterSet == [r \in DOMAIN maxErrors \cup setRules |->
                     IF r \in setRules THEN ruleToErrorCount[r] ELSE maxErrors[r]]
      increasedRulesCount == Cardinality({r \in setRules : ruleToErrorCount[r] > old(r)})
      decreasedRulesCount == Cardinality({r \in setRules : ruleToErrorCount[r] < old(r)})
      removedRules ==
        IF args.verbose \/ ~args.keepRules.all
        THEN {r \in DOMAIN afterSet : ShouldRemove(args, ruleToErrorCount, r, afterSet[r])}
        ELSE {}
      afterRemove == [r \in DOMAIN afterSet \ removedRules |-> afterSet[r]]
      isChanged == increasedRulesCount > 0 \/ decreasedRulesCount > 0 \/ removedRules # {}
      commit == ShouldCommit(args, isChanged)
      d2 == IF hasFile
            THEN [d1 EXCEPT ![filename].maxErrors = afterRemove]
            ELSE IF commit
                 THEN [f \in DOMAIN d1 \cup {filename} |->
                         IF f = filename THEN FileState(<<>>, TRUE, afterRemove) ELSE d1[f]]
                 ELSE d1
  IN [data |-> d2,
      changed |-> (ch \/ commit),
      removedRules |-> removedRules,
      increasedRulesCount |-> increasedRulesCount,
      decreasedRulesCount |-> decreasedRulesCount]

\* the record file: exists = FALSE is ENOENT
NoFile == [exists |-> FALSE, lines |-> <<>>]
FileText(lines) == [exists |-> TRUE, lines |-> lines]

\* SeatbeltFile.openSync(...).data
openSync(file) == IF file.exists THEN parse(file.lines) ELSE [f \in {} |-> 0]


\* ------------------------------------------------------- Linter.LintMessage
\* the seatbelt notice appended to a message: which template, and the
\* numbers it prints, in the order they are printed
NoNote == [kind |-> "none", nums |-> <<>>, file |-> ""]
Note(kind, nums) == [kind |-> kind, nums |-> nums, file |-> ""]

LintMessage(ruleId, severity, suppressed) ==
  [ruleId |-> ruleId, severity |-> severity, suppressed |-> suppressed,
   line |-> 2, column |-> 1, text |-> "lint", note |-> NoNote]

\* the diagnostics ESLint hands to the processor: the errors of the enabled
\* rules, and the ones that are no countable error (a parse error, which has
\* no rule, a warning, a suppressed error)
ErrorOrder == [i \in 1..(Len(RuleOrder) - 1) |-> LintMessage(RuleOrder[i], 2, FALSE)]
OtherMessages ==
  {LintMessage(NullRule, 2, FALSE),
   LintMessage(RuleOrder[1], 1, FALSE),
   LintMessage(RuleOrder[1], 2, TRUE)}
LintMessages == {ErrorOrder[i] : i \in 1..Len(ErrorOrder)} \cup OtherMessages

\* the lists of diagnostics of one file: errors, each combination taken once
\* whatever its order (every diagnostic is transformed on its own), followed
\* by at most one diagnostic that is no countable error
ErrorLists(n) ==
  {[i \in 1..Len(ks) |-> ErrorOrder[ks[i]]] :
     ks \in {js \in UNION {[1..k -> 1..Len(ErrorOrder)] : k \in 0..n} :
               \A i \in 1..(Len(js) - 1) : js[i] <= js[i + 1]}}
MessageLists ==
  ErrorLists(MaxMessages)
    \cup {Append(es, m) : es \in ErrorLists(MaxMessages - 1), m \in OtherMessages}

isCountableLintError(message) ==
  /\ message.severity >= 2
  /\ ~message.suppressed
  /\ message.ruleId # NullRule

countRuleIds(messages) ==
  LET counted == {i \in 1..Len(messages) : isCountableLintError(messages[i])}
      ids == {messages[i].ruleId : i \in counted}
  IN [r \in ids |-> Cardinality({i \in counted : messages[i].ruleId = r})]

\* the severity given to the messages of a rule whose count is below its
\* allowance while the policy is frozen
FrozenUnderSeverity == 1

messageOverMaxErrorCount(message, errorCount, maxErrorCount) ==
  [message EXCEPT
     !.note = Note("over", <<errorCount, maxErrorCount, errorCount - maxErrorCount>>)]

\* the increase notice on a message left at its severity
messageIncreaseAllowedAsError(message, errorCount, maxErrorCount) ==
  [message EXCEPT !.note = Note("increase", <<errorCount - maxErrorCount>>)]

messageOverMaxErrorCountButIncreaseAllowed(message, errorCount, maxErrorCount) ==
  [message EXCEPT !.severity = 1,
                  !.note = Note("increase", <<errorCount - maxErrorCount>>)]

messageAtMaxErrorCount(message, errorCount) ==
  [message EXCEPT !.severity = 1, !.note = Note("at", <<errorCount>>)]

\* the tightening notice on a message left at its severity
messageUnderAsError(message, errorCount, maxErrorCount) ==
  [message EXCEPT
     !.note = Note("under", <<maxErrorCount, errorCount - maxErrorCount>>)]

messageUnderMaxErrorCount(message, errorCount, maxErrorCount) ==
  [message EXCEPT !.severity = 1,
                  !.note = Note("under", <<maxErrorCount, errorCount - maxErrorCount>>)]

messageFrozenUnderMaxErrorCountText(seatbeltFilename, errorCount, maxErrorCount) ==
  [kind |-> "frozen",
   nums |-> <<maxErrorCount, errorCount, errorCount - maxErrorCount>>,
   file |-> seatbeltFilename]

messageFrozenUnderMaxErrorCount(message, seatbeltFilename, errorCount, maxErrorCount) ==
  [message EXCEPT
     !.severity = FrozenUnderSeverity,
     !.note = messageFrozenUnderMaxErrorCountText(seatbeltFilename, errorCount, maxErrorCount)]

\* the callback of messages.map in transformMessages; MessageThrows is the
\* `errorCount not found` internal error
MessageThrows(message, ruleToErrorCount) ==
  isCountableLintError(message) /\ message.ruleId \notin DOMAIN ruleToErrorCount

transformMessage(args, filename, maxErrors, ruleToErrorCount, message) ==
  IF message.ruleId = NullRule THEN message
  ELSE IF ~isCountableLintError(message) THEN message
  ELSE
    LET errorCount == ruleToErrorCount[message.ruleId]
        maxErrorCount ==
          IF message.ruleId \in DOMAIN maxErrors THEN maxErrors[message.ruleId] ELSE 0
        allowIncrease == ruleSetHas(args.allowIncreaseRules, message.ruleId)
    IN IF maxErrorCount = 0 /\ ~allowIncrease THEN message
       ELSE IF errorCount > maxErrorCount
         THEN IF allowIncrease
              THEN messageOverMaxErrorCountButIncreaseAllowed(message, errorCount, maxErrorCount)
              ELSE messageOverMaxErrorCount(message, errorCount, maxErrorCount)
       ELSE IF errorCount = maxErrorCount
         THEN messageAtMaxErrorCount(message, errorCount)
       ELSE IF args.frozen
         THEN messageFrozenUnderMaxErrorCount(message, filename, errorCount, maxErrorCount)
       ELSE messageUnderMaxErrorCount(message, errorCount, maxErrorCount)

\* transformMessages that returns the countable diagnostics only
transformMessagesCountableOnly(args, d, filename, messages, ruleToErrorCount) ==
  [threw |-> FALSE,
   messages |-> SelectSeq(messages, LAMBDA m : isCountableLintError(m))]

\* transformMessages on store contents d (after getMaxErrors materialised the
\* file's map)
transformMessages(args, d, filename, messages, ruleToErrorCount) ==
  LET ruleToMaxErrorCount == getMaxErrors(d, filename)
      allowIncrease ==
        args.allowIncreaseRules.all \/ args.allowIncreaseRules.rules # {}
  IN IF args.disable THEN [threw |-> FALSE, messages |-> messages]
     ELSE IF ~ruleToMaxErrorCount.has /\ ~allowIncrease
       THEN [threw |-> FALSE, messages |-> messages]
     ELSE IF \E i \in 1..Len(messages) : MessageThrows(messages[i], ruleToErrorCount)
       THEN [threw |-> TRUE, messages |-> <<>>]
     ELSE [threw |-> FALSE,
           messages |-> [i \in 1..Len(messages) |->
              transformMessage(args, filename, ruleToMaxErrorCount.map,
                               ruleToErrorCount, messages[i])]]

\* the synthetic diagnostic of maybeWriteStateUpdate for a removed rule
FrozenRemovedMessage(filename, ruleId, maxErrorCount) ==
  [ruleId |-> ruleId, severity |-> 2, suppressed |-> FALSE,
   line |-> 1, column |-> 0, text |-> "",
   note |-> messageFrozenUnderMaxErrorCountText(filename, 0, maxErrorCount)]

\* the map that maybeWriteStateUpdate reads the removed rules' allowances
\* from: the one getMaxErrors returned before updateMaxErrors ran, which is
\* the Map object updateMaxErrors then changed
MapReadAfterUpdate(before, after, filename) ==
  IF filename \in DOMAIN before
  THEN [has |-> TRUE, map |-> after[filename].maxErrors]
  ELSE [has |-> FALSE, map |-> EmptyMap]

RECURSIVE RemovedMessages(_, _, _, _)
RemovedMessages(filename, removedRules, map, i) ==
  IF i > Len(RuleOrder) THEN <<>>
  ELSE (IF RuleOrder[i] \in removedRules
        THEN <<FrozenRemovedMessage(filename, RuleOrder[i], map[RuleOrder[i]])>>
        ELSE <<>>) \o RemovedMessages(filename, removedRules, map, i + 1)


\* ------------------------------------------------------------------- state
VARIABLES
  disk,               \* the record file (seatbelt.tsv) on disk
  data,               \* SeatbeltFile.data of the cached store
  changed,            \* SeatbeltFile.changed, the dirty flag
  isEslintCli,        \* pluginGlobals.isEslintCli() of this process
  temporaryFileArgs,  \* pluginGlobals.temporaryFileArgs
  call,               \* the call in progress or just returned: its inputs,
                      \* the file's mapping as the call found it (before),
                      \* what it returned, and how many calls came before
  codec,              \* a text or mapping taken through the record codec
  procs,              \* the linting processes that share the record file
  tmp,                \* the temporary files of writeSync, by process
  context,            \* process.env, and settings.seatbelt and options[0] of
                      \* the ESLint rule context
  CLI_ARGS,           \* pluginGlobals.CLI_ARGS: the args pushed in a CLI run,
                      \* each identified with the record file it names
  ANY_CONFIG_DISABLED, \* pluginGlobals.ANY_CONFIG_DISABLED
  fileLock            \* the lock marker file, the FileLock instances (fd), the
                      \* clock, and the FileLock call made last

vars == <<disk, data, changed, isEslintCli, temporaryFileArgs, call, codec, procs, tmp,
          context, CLI_ARGS, ANY_CONFIG_DISABLED, fileLock>>

\* nothing is being encoded or decoded; no other process, no temporary file
NoCodec == [stage |-> "none"]
NoProcs == [p \in {} |-> 0]
NoTmp == [p \in {} |-> 0]
NoContext == [env |-> <<>>]
\* no lock marker file, no FileLock instance
NoLock == [exists |-> FALSE]

NoArgs == [f \in {} |-> fromConfig]

Call(op, seq, filename, args, messages, ruleToErrorCount) ==
  [op |-> op, seq |-> seq, filename |-> filename, args |-> args,
   messages |-> messages, ruleToErrorCount |-> ruleToErrorCount,
   before |-> [has |-> FALSE, map |-> EmptyMap],
   threw |-> FALSE, result |-> <<>>, removedRules |-> {},
   increasedRulesCount |-> 0, decreasedRulesCount |-> 0, updated |-> FALSE]

\* no call is in progress: the process has started, or the caller has taken
\* the value the last call returned
Idle == {"init", "returned"}

\* record files the run may start from: sorted, one line per (file, rule);
\* the first rule with every allowance, the others with the largest or none
MapsUpTo(n) ==
  {m \in UNION {[S -> 0..n] : S \in SUBSET Rules} :
     \A r \in DOMAIN m \ {RuleOrder[1]} : m[r] = n}
OtherFileMaps == {[r \in {RuleOrder[1]} |-> MaxCount]}
\* the record of the updateMaxErrors unit test
TestRecord == [r \in Rules |-> CASE r = RuleOrder[1] -> 5
                                 [] r = RuleOrder[2] -> 3
                                 [] OTHER -> 99]
InitialFiles ==
  {NoFile} \cup
  {FileText(LinesOfMap(MainFile, m, 1) \o LinesOfMap(OtherFile, o, 1)) :
     m \in MapsUpTo(MaxCount) \cup {TestRecord}, o \in OtherFileMaps}

Init ==
  /\ disk \in InitialFiles
  /\ data = openSync(disk)
  /\ changed = FALSE
  /\ isEslintCli \in BOOLEAN
  /\ temporaryFileArgs = NoArgs
  /\ call = Call("init", 0, "", fromConfig, <<>>, EmptyMap)
  /\ codec = NoCodec
  /\ procs = NoProcs
  /\ tmp = NoTmp
  /\ context = NoContext
  /\ CLI_ARGS = {}
  /\ ANY_CONFIG_DISABLED = FALSE
  /\ fileLock = NoLock

\* ---------------------------------------------------------------------
\* The record codec on text.  A text is a sequence of characters; the
\* characters the codec treats specially are named, the others stand for
\* themselves.
\* ---------------------------------------------------------------------
MaxLines == 3        \* lines of an input text
MaxEntries == 2      \* records of a mapping given to fromJSON

Char ==
  [tab |-> "TAB", nl |-> "NL", quote |-> "QUOTE", bsl |-> "BSL", space |-> "SPACE"]

\* the characters in the order of their code units
CharOrder ==
  << Char.tab, Char.nl, Char.space, Char.quote, "#", "-", ".",
     "0", "1", "2", "3", "4", "5", "6", "7", "8", "9",
     Char.bsl, "c", "f", "g", "n", "r", "t", "x" >>

RECURSIVE Flatten(_)
Flatten(texts) ==
  IF texts = <<>> THEN <<>> ELSE Head(texts) \o Flatten(Tail(texts))

\* the order of JavaScript strings under < and Array.prototype.sort: by
\* code unit, a proper prefix first
RECURSIVE TextBefore(_, _)
TextBefore(a, b) ==
  LET CharCode(c) == CHOOSE i \in 1..Len(CharOrder) : CharOrder[i] = c
  IN  IF b = <<>> THEN FALSE
      ELSE IF a = <<>> THEN TRUE
      ELSE IF Head(a) # Head(b) THEN CharCode(Head(a)) < CharCode(Head(b))
      ELSE TextBefore(Tail(a), Tail(b))

\* String.prototype.trimStart and trim
RECURSIVE TrimStart(_)
TrimStart(t) ==
  IF t # <<>> /\ Head(t) \in {Char.space, Char.tab, Char.nl}
    THEN TrimStart(Tail(t)) ELSE t
RECURSIVE Trim(_)
Trim(t) ==
  IF t # <<>> /\ t[Len(t)] \in {Char.space, Char.tab, Char.nl}
    THEN Trim(SubSeq(t, 1, Len(t) - 1)) ELSE TrimStart(t)

\* String.prototype.split on one character
RECURSIVE SplitOn(_, _, _)
SplitOn(t, sep, piece) ==
  IF t = <<>> THEN <<piece>>
  ELSE IF Head(t) = sep THEN <<piece>> \o SplitOn(Tail(t), sep, <<>>)
  ELSE SplitOn(Tail(t), sep, Append(piece, Head(t)))

\* text.split(/(?<=\n)/): every piece but the last ends with the newline
RECURSIVE SplitAfterNewline(_, _)
SplitAfterNewline(t, piece) ==
  IF t = <<>> THEN (IF piece = <<>> THEN <<>> ELSE <<piece>>)
  ELSE IF Head(t) = Char.nl
    THEN <<Append(piece, Char.nl)>> \o SplitAfterNewline(Tail(t), <<>>)
  ELSE SplitAfterNewline(Tail(t), Append(piece, Head(t)))

\* JSON.stringify of a string that leaves a tab as it is
JSONstringifyTabRaw(t) ==
  LET EscapeTabRaw(c) ==
        IF c = Char.nl THEN <<Char.bsl, "n">>
        ELSE IF c = Char.quote THEN <<Char.bsl, Char.quote>>
        ELSE IF c = Char.bsl THEN <<Char.bsl, Char.bsl>>
        ELSE <<c>>
  IN  <<Char.quote>> \o Flatten([i \in 1..Len(t) |-> EscapeTabRaw(t[i])])
        \o <<Char.quote>>

\* JSON.stringify of a string
JSONstringify(t) ==
  LET Escape(c) ==
        IF c = Char.tab THEN <<Char.bsl, "t">>
        ELSE IF c = Char.nl THEN <<Char.bsl, "n">>
        ELSE IF c = Char.quote THEN <<Char.bsl, Char.quote>>
        ELSE IF c = Char.bsl THEN <<Char.bsl, Char.bsl>>
        ELSE <<c>>
  IN  <<Char.quote>> \o Flatten([i \in 1..Len(t) |-> Escape(t[i])])
        \o <<Char.quote>>

\* JSON values: strings and numbers
JSONFailure == [ok |-> FALSE]
JSONString(t) == [ok |-> TRUE, kind |-> "string", chars |-> t]
JSONNumber(neg, int, frac) ==
  [ok |-> TRUE, kind |-> "number", neg |-> neg, int |-> int, frac |-> frac]
\* a number that is a non-negative integer
IsCount(v) == v.kind = "number" /\ ~v.neg /\ v.frac = <<>>

\* the characters between the quotes of a JSON string literal
RECURSIVE Unescape(_)
Unescape(t) ==
  IF t = <<>> THEN JSONString(<<>>)
  ELSE IF Head(t) = Char.bsl
    THEN IF Len(t) < 2 \/ t[2] \notin {"t", "n", Char.quote, Char.bsl}
           THEN JSONFailure
         ELSE LET rest == Unescape(SubSeq(t, 3, Len(t)))
                  c == IF t[2] = "t" THEN Char.tab
                       ELSE IF t[2] = "n" THEN Char.nl ELSE t[2]
              IN  IF rest.ok THEN JSONString(<<c>> \o rest.chars)
                  ELSE JSONFailure
  ELSE IF Head(t) \in {Char.quote, Char.tab, Char.nl} THEN JSONFailure
  ELSE LET rest == Unescape(Tail(t))
       IN  IF rest.ok THEN JSONString(<<Head(t)>> \o rest.chars)
           ELSE JSONFailure

DigitChars == <<"0", "1", "2", "3", "4", "5", "6", "7", "8", "9">>
RECURSIVE NumberOfDigits(_)
NumberOfDigits(t) ==
  IF t = <<>> THEN 0
  ELSE 10 * NumberOfDigits(SubSeq(t, 1, Len(t) - 1))
         + (CHOOSE i \in 1..10 : DigitChars[i] = t[Len(t)]) - 1

\* a JSON number literal: -? int (. digits)?
JSONparseNumber(t) ==
  LET AllDigits(ds) ==
        ds # <<>> /\ \A i \in 1..Len(ds) : \E k \in 1..10 : DigitChars[k] = ds[i]
      neg == t # <<>> /\ Head(t) = "-"
      parts == SplitOn(IF neg THEN Tail(t) ELSE t, ".", <<>>)
      intOk == AllDigits(parts[1]) /\ (Len(parts[1]) > 1 => Head(parts[1]) # "0")
  IN  IF Len(parts) = 1 /\ intOk
        THEN JSONNumber(neg, NumberOfDigits(parts[1]), <<>>)
      ELSE IF Len(parts) = 2 /\ intOk /\ AllDigits(parts[2])
        THEN JSONNumber(neg, NumberOfDigits(parts[1]), parts[2])
      ELSE JSONFailure

\* JSON.parse
JSONparse(text) ==
  LET t == Trim(text)
  IN  IF t = <<>> THEN JSONFailure
      ELSE IF Head(t) = Char.quote
        THEN IF Len(t) < 2 \/ t[Len(t)] # Char.quote THEN JSONFailure
             ELSE Unescape(SubSeq(t, 2, Len(t) - 1))
      ELSE JSONparseNumber(t)

\* `${maxErrors}`
RECURSIVE NumberText(_)
NumberText(v) ==
  IF v.kind = "string" THEN v.chars
  ELSE IF v.neg THEN <<"-">> \o NumberText([v EXCEPT !.neg = FALSE])
  ELSE IF v.frac # <<>>
    THEN NumberText([v EXCEPT !.frac = <<>>]) \o <<".">> \o v.frac
  ELSE IF v.int < 10 THEN <<DigitChars[v.int + 1]>>
  ELSE Append(NumberText([v EXCEPT !.int = v.int \div 10]),
              DigitChars[(v.int % 10) + 1])

TextLine(filename, ruleId, maxErrors) ==
  [filename |-> filename, ruleId |-> ruleId, maxErrors |-> maxErrors]

encodeLine(line) ==
  JSONstringify(line.filename) \o <<Char.tab>> \o JSONstringify(line.ruleId)
    \o <<Char.tab>> \o NumberText(line.maxErrors) \o <<Char.nl>>

\* decodeLine: the line and the index map() passes; an error carries the
\* line number it reports and the trimmed line
DecodeFailure(line, index) ==
  [ok |-> FALSE, line |-> index + 1, content |-> Trim(line)]
decodeLine(line, index) ==
  LET lineParts == SplitOn(line, Char.tab, <<>>)
      \* the value a decoded name takes: JSON.parse's result, whatever its type
      NameOf(v) == IF v.kind = "string" THEN v.chars ELSE v
  IN  IF Len(lineParts) # 3 THEN DecodeFailure(line, index)
      ELSE LET filename == JSONparse(lineParts[1])
               ruleId == JSONparse(lineParts[2])
               maxErrors == JSONparse(lineParts[3])
           IN  IF filename.ok /\ ruleId.ok /\ maxErrors.ok
                 THEN [ok |-> TRUE, encoded |-> line,
                       filename |-> NameOf(filename),
                       ruleId |-> NameOf(ruleId),
                       maxErrors |-> maxErrors]
               ELSE DecodeFailure(line, index)

\* COMMENT_LINE_REGEX and the filter of SeatbeltFile.parse
IsCommentLine(line) ==
  LET t == TrimStart(line) IN t # <<>> /\ Head(t) = "#"
IsDataLine(line) == line # <<>> /\ line # <<Char.nl>> /\ ~IsCommentLine(line)

\* .map(decodeLine): each kept line with its index among the kept lines
RECURSIVE decodeLines(_, _)
decodeLines(kept, index) ==
  IF kept = <<>> THEN <<>>
  ELSE <<decodeLine(Head(kept), index)>> \o decodeLines(Tail(kept), index + 1)

\* SeatbeltFile.parse on the text of the record file: the store, the comment
\* block, or the error of the first line that does not decode
parseText(text) ==
  LET split == SplitAfterNewline(text, <<>>)
      decoded == decodeLines(SelectSeq(split, IsDataLine), 0)
      failed == SelectSeq(decoded, LAMBDA l : ~l.ok)
  IN  IF failed # <<>>
        THEN [ok |-> FALSE, data |-> [f \in {} |-> 0], comments |-> <<>>,
              error |-> Head(failed)]
      ELSE [ok |-> TRUE, data |-> parse(decoded),
            comments |-> Trim(Flatten(SelectSeq(split, IsCommentLine))),
            error |-> DecodeFailure(<<>>, 0)]

\* DEFAULT_FILE_HEADER: two comment lines, trimmed
DEFAULT_FILE_HEADER == <<"#", "c", Char.nl, "#", "c">>

RECURSIVE SeqOfSet(_)
SeqOfSet(S) ==
  IF S = {} THEN <<>>
  ELSE LET x == CHOOSE x \in S : TRUE IN <<x>> \o SeqOfSet(S \ {x})

\* toDataString, first half: fileState.lines of a file whose mapping is
\* materialised is rebuilt from the mapping, sorted by ruleId, and every
\* line gets line.encoded ??= encodeLine(line)
linesAfterToDataString(d) ==
  LET rules(f) == SeqOfSet(DOMAIN d[f].maxErrors)
      rebuilt(f) ==
        SortSeq([i \in 1..Len(rules(f)) |->
                   TextLine(f, rules(f)[i], d[f].maxErrors[rules(f)[i]])],
                LAMBDA a, b : TextBefore(a.ruleId, b.ruleId))
      lines(f) == IF d[f].cached THEN rebuilt(f) ELSE d[f].lines
      withEncoded(line) ==
        [ok |-> TRUE,
         encoded |-> IF "encoded" \in DOMAIN line THEN line.encoded
                     ELSE encodeLine(line),
         filename |-> line.filename, ruleId |-> line.ruleId,
         maxErrors |-> line.maxErrors]
  IN  [f \in DOMAIN d |->
         [d[f] EXCEPT !.lines = [i \in 1..Len(lines(f)) |-> withEncoded(lines(f)[i])]]]

\* toDataString that joins the lines without the final lines.sort()
toDataStringUnsorted(comments, d, files, rulesOf) ==
  LET linesOf(f) ==
        IF d[f].cached
        THEN SortSeq([i \in 1..Len(rulesOf[f]) |->
                        TextLine(f, rulesOf[f][i], d[f].maxErrors[rulesOf[f][i]])],
                     LAMBDA x, y : TextBefore(x.ruleId, y.ruleId))
        ELSE d[f].lines
      encodedOf(line) ==
        IF "encoded" \in DOMAIN line THEN line.encoded ELSE encodeLine(line)
      encoded == Flatten([i \in 1..Len(files) |->
                            [k \in 1..Len(linesOf(files[i])) |->
                               encodedOf(linesOf(files[i])[k])]])
  IN  comments \o <<Char.nl, Char.nl>> \o Flatten(encoded)

\* SeatbeltFile.toDataString on the text level (every line's text, sorted,
\* after the comment block and an empty line), the Maps iterated in their
\* insertion order: files lists the keys of this.data, rulesOf[f] the keys of
\* the file's maxErrors
toDataStringInOrder(comments, d, files, rulesOf) ==
  LET linesOf(f) ==
        IF d[f].cached
        THEN SortSeq([i \in 1..Len(rulesOf[f]) |->
                        TextLine(f, rulesOf[f][i], d[f].maxErrors[rulesOf[f][i]])],
                     LAMBDA x, y : TextBefore(x.ruleId, y.ruleId))
        ELSE d[f].lines
      encodedOf(line) ==
        IF "encoded" \in DOMAIN line THEN line.encoded ELSE encodeLine(line)
      encoded == Flatten([i \in 1..Len(files) |->
                            [k \in 1..Len(linesOf(files[i])) |->
                               encodedOf(linesOf(files[i])[k])]])
  IN  comments \o <<Char.nl, Char.nl>> \o Flatten(SortSeq(encoded, TextBefore))

\* toDataString of a store whose insertion order is not recorded
toDataStringText(comments, d) ==
  toDataStringInOrder(comments, d, SeqOfSet(DOMAIN d),
                      [f \in DOMAIN d |->
                         IF d[f].cached THEN SeqOfSet(DOMAIN d[f].maxErrors) ELSE <<>>])

\* SeatbeltFile.fromJSON and toJSON
fromJSON(json) == [f \in DOMAIN json |-> FileState(<<>>, TRUE, json[f])]
toJSON(d) == [f \in DOMAIN d |-> getMaxErrors(d, f).map]

\* flushChanges that clears the dirty flag and leaves the write for later
flushChangesDeferred(file, d, ch) ==
  [disk |-> file, data |-> d, changed |-> FALSE, updated |-> ch]

\* flushChanges that writes and leaves the dirty flag set
flushChangesKeepsDirty(file, d, ch) ==
  IF ch
  THEN [disk |-> FileText(toDataString(d)), data |-> linesAfterSerialize(d),
        changed |-> TRUE, updated |-> TRUE]
  ELSE [disk |-> file, data |-> d, changed |-> ch, updated |-> FALSE]

\* SeatbeltFile.flushChanges (with writeSync) on (d, ch)
flushChanges(file, d, ch) ==
  IF ch
  THEN [disk |-> FileText(toDataString(d)), data |-> linesAfterSerialize(d),
        changed |-> FALSE, updated |-> TRUE]
  ELSE [disk |-> file, data |-> d, changed |-> ch, updated |-> FALSE]

\* SeatbeltFile.readSync (instance) on the record file
readSync(file) == [data |-> openSync(file), changed |-> FALSE]

\* readSync that empties the store before it parses the record file
readSyncForgetting(file, d, ch) ==
  IF "text" \in DOMAIN file /\ ~parseText(file.text).ok
  THEN [data |-> [f \in {} |-> 0], changed |-> FALSE, threw |-> TRUE]
  ELSE [data |-> readSync(file).data, changed |-> FALSE, threw |-> FALSE]

\* SeatbeltFile.readSync (instance) of the store (d, ch), also when the record
\* file holds a text somebody wrote by hand: openSync throws on a text that
\* does not parse, before this.data and this.changed are assigned
readSyncOf(file, d, ch) ==
  IF "text" \in DOMAIN file
  THEN LET p == parseText(file.text)
       IN  IF p.ok THEN [data |-> p.data, changed |-> FALSE, threw |-> FALSE]
           ELSE [data |-> d, changed |-> ch, threw |-> TRUE]
  ELSE [data |-> readSync(file).data, changed |-> readSync(file).changed,
        threw |-> FALSE]

\* record files left by a bad merge or edit: a good line followed by a line
\* of two fields, and a header followed by a line with an empty rule field
MalformedTexts ==
  LET f == JSONstringify(<<"f">>)
      r == JSONstringify(<<"r">>)
  IN  {f \o <<Char.tab>> \o r \o <<Char.tab, "2", Char.nl>>
         \o f \o <<Char.tab>> \o r \o <<Char.nl>>,
       <<"#", "c", Char.nl>> \o f \o <<Char.tab, Char.tab, "2", Char.nl>>}

\* ------------------------------------------------- the ESLint run, per file
\* the files ESLint is asked to lint
LintedFiles == {MainFile}

\* SeatbeltProcessor.preprocess: ESLint starts on the next file
PreprocessPass(filename, passes) ==
  /\ call.op \in Idle
  /\ UNCHANGED <<codec, procs, tmp, context, CLI_ARGS, ANY_CONFIG_DISABLED, fileLock>>
  /\ call.seq < passes
  /\ call' = Call("preprocess", call.seq, filename, fromConfig, <<>>, EmptyMap)
  /\ UNCHANGED <<disk, data, changed, isEslintCli, temporaryFileArgs>>

\* a run of the process lints MaxFiles files
Preprocess(filename) == PreprocessPass(filename, MaxFiles)

\* what the exit sweep reads of a pushed args: the record file it names (the
\* model has one record file)
seatbeltFileOf(args) == [seatbeltFile |-> "eslint.seatbelt.tsv"]

\* configure.create: pushFileArgs(filename, args) for the file being linted,
\* with what configToArgs and pushFileArgs leave in the globals
Configure(filename, args) ==
  /\ call.op = "preprocess"
  /\ UNCHANGED <<codec, procs, tmp, context, fileLock>>
  /\ ANY_CONFIG_DISABLED' = (ANY_CONFIG_DISABLED \/ args.disable)
  /\ CLI_ARGS' = IF isEslintCli THEN CLI_ARGS \cup {seatbeltFileOf(args)} ELSE CLI_ARGS
  /\ call.filename = filename
  /\ temporaryFileArgs' =
       [f \in DOMAIN temporaryFileArgs \cup {filename} |->
          IF f = filename THEN args ELSE temporaryFileArgs[f]]
  /\ call' = Call("configure", call.seq, filename, args, <<>>, EmptyMap)
  /\ UNCHANGED <<disk, data, changed, isEslintCli>>

\* ---- the policy of a file: environment, shared settings, rule options
BooleanKeys == {"frozen", "threadsafe", "disable", "verbose"}
RuleSetKeys == {"keepRules", "allowIncreaseRules"}

\* the SEATBELT_* variable of each option, and the variables of other tools
\* that stand in for an option
OverrideVar ==
  [frozen |-> "SEATBELT_FROZEN", threadsafe |-> "SEATBELT_THREADSAFE",
   disable |-> "SEATBELT_DISABLE", verbose |-> "SEATBELT_VERBOSE",
   keepRules |-> "SEATBELT_KEEP", allowIncreaseRules |-> "SEATBELT_INCREASE"]
FallbackVar == [frozen |-> "CI", threadsafe |-> "JEST_WORKER_ID"]

\* String.prototype.toLowerCase on the texts used here
toLowerCase(value) ==
  CASE value = "FALSE" -> "false"
    [] value = "ALL" -> "all"
    [] OTHER -> value

\* SeatbeltEnv.readBooleanEnvVar(env[var]); defined = FALSE is undefined
readBooleanEnvVar(env, var) ==
  IF var \notin DOMAIN env \/ env[var] = ""
  THEN [defined |-> FALSE, value |-> FALSE]
  ELSE [defined |-> TRUE, value |-> toLowerCase(env[var]) \notin {"false", "0", "no"}]

\* SeatbeltEnv.parseRuleSetEnvVar(env[var]) on a text given as its runs of
\* separators ("," and " ") and of other characters
parseRuleSetEnvVar(env, var) ==
  IF var \notin DOMAIN env
    THEN [defined |-> FALSE, value |-> [all |-> FALSE, list |-> <<>>]]
  ELSE IF env[var] = <<>>
    THEN [defined |-> TRUE, value |-> [all |-> FALSE, list |-> <<>>]]
  ELSE IF Len(env[var]) = 1 /\ toLowerCase(env[var][1]) \in {"all", "1", "true"}
    THEN [defined |-> TRUE, value |-> [all |-> TRUE, list |-> <<>>]]
  ELSE [defined |-> TRUE,
        value |-> [all |-> FALSE,
                   list |-> SelectSeq(env[var], LAMBDA t : t \notin {",", " "})]]

\* SeatbeltConfig.fromFallbackEnv
fromFallbackEnv(env) ==
  [k \in {k \in DOMAIN FallbackVar :
            FallbackVar[k] \in DOMAIN env /\ env[FallbackVar[k]] # ""} |-> TRUE]

\* SeatbeltConfig.fromEnvOverrides (without pwd)
fromEnvOverrides(env) ==
  [k \in {k \in BooleanKeys : readBooleanEnvVar(env, OverrideVar[k]).defined}
           \cup {k \in RuleSetKeys : parseRuleSetEnvVar(env, OverrideVar[k]).defined} |->
     IF k \in BooleanKeys
     THEN readBooleanEnvVar(env, OverrideVar[k]).value
     ELSE parseRuleSetEnvVar(env, OverrideVar[k]).value]

\* the object spread { ...a, ...b }
Spread(a, b) ==
  [k \in DOMAIN a \cup DOMAIN b |-> IF k \in DOMAIN b THEN b[k] ELSE a[k]]

\* SeatbeltArgs.fromConfig: the keys of SeatbeltArgs this model carries
fromConfigOf(config) ==
  [k \in BooleanKeys \cup RuleSetKeys |->
     IF k \in BooleanKeys
     THEN IF k \in DOMAIN config THEN config[k] ELSE FALSE
     ELSE IF k \notin DOMAIN config THEN RuleSetOf({})
          ELSE IF config[k].all THEN RuleSetAll
          ELSE RuleSetOf({config[k].list[i] : i \in 1..Len(config[k].list)})]

\* configToArgs with the fallback spread last
configToArgsFallbackLast(env, config) ==
  fromConfigOf(Spread(Spread(config, fromEnvOverrides(env)), fromFallbackEnv(env)))

\* pluginGlobals.configToArgs
configToArgs(env, config) ==
  fromConfigOf(Spread(Spread(fromFallbackEnv(env), config), fromEnvOverrides(env)))

\* a configuration ESLint does not give (settings.seatbelt or options[0]
\* undefined), and EMPTY_CONFIG
NoConfig == [undefined |-> TRUE]
EMPTY_CONFIG == <<>>

\* pluginGlobals.ruleOverrideConfigToArgs
ruleOverrideConfigToArgs(env, settingsConfig, ruleOverrideConfig) ==
  IF settingsConfig # NoConfig /\ ruleOverrideConfig # NoConfig
    THEN configToArgs(env, Spread(settingsConfig, ruleOverrideConfig))
  ELSE IF ruleOverrideConfig # NoConfig THEN configToArgs(env, ruleOverrideConfig)
  ELSE IF settingsConfig # NoConfig THEN configToArgs(env, settingsConfig)
  ELSE configToArgs(env, EMPTY_CONFIG)

\* popFileArgs that finds no pushed args and falls back to the empty config
popFileArgsEmpty(filename) == fromConfig

\* pluginGlobals.popFileArgs
popFileArgs(filename) ==
  IF filename \in DOMAIN temporaryFileArgs
  THEN temporaryFileArgs[filename]
  ELSE configToArgs(context.env, EMPTY_CONFIG)

\* maybeWriteStateUpdate on (d, ch): the state it leaves, whether it threw
\* and the additional messages
maybeWriteStateUpdate(args, file, d, ch, filename, ruleToErrorCount) ==
  LET d0 == IF args.threadsafe THEN readSync(file).data ELSE d
      ch0 == IF args.threadsafe THEN FALSE ELSE ch
      d1 == materialize(d0, filename)
      Finish(u) ==
        LET read == MapReadAfterUpdate(d1, u.data, filename)
            missing == {r \in u.removedRules : ~read.has \/ r \notin DOMAIN read.map}
            fl == flushChanges(file, u.data, u.changed)
        IN IF ~args.frozen
           THEN [disk |-> fl.disk, data |-> fl.data, changed |-> fl.changed,
                 threw |-> FALSE, additional |-> <<>>, update |-> u,
                 updated |-> fl.updated]
           ELSE IF u.removedRules # {} /\ missing # {}
           THEN [disk |-> file, data |-> u.data, changed |-> u.changed,
                 threw |-> TRUE, additional |-> <<>>, update |-> u, updated |-> FALSE]
           ELSE [disk |-> file, data |-> u.data, changed |-> u.changed,
                 threw |-> FALSE,
                 additional |-> RemovedMessages(filename, u.removedRules, read.map, 1),
                 update |-> u, updated |-> FALSE]
  IN CHOOSE w \in {Finish(u) :
                     u \in {updateMaxErrors(d1, ch0, filename, args, ruleToErrorCount)}} : TRUE

\* SeatbeltProcessor.postprocess
Postprocess(filename, messages) ==
  /\ call.op \in {"preprocess", "configure"}
  /\ UNCHANGED <<codec, procs, tmp, context, CLI_ARGS, ANY_CONFIG_DISABLED, fileLock>>
  /\ call.filename = filename
  /\ temporaryFileArgs' =
       [f \in DOMAIN temporaryFileArgs \ {filename} |-> temporaryFileArgs[f]]
  /\ UNCHANGED isEslintCli
  /\ \E args \in {popFileArgs(filename)} :
     \E ruleToErrorCount \in {countRuleIds(messages)} :
     \E base \in {Call("postprocess", call.seq + 1, filename, args, messages,
                       ruleToErrorCount)} :
       IF args.disable
       THEN /\ call' = [base EXCEPT !.result = messages,
                                     !.before = getMaxErrors(data, filename)]
            /\ UNCHANGED <<disk, data, changed>>
       ELSE
         \E reload \in {args.threadsafe \/ ~isEslintCli} :
         \E d1 \in {materialize(IF reload THEN readSync(disk).data ELSE data, filename)} :
         \E ch0 \in {IF reload THEN FALSE ELSE changed} :
         \E t \in {transformMessages(args, d1, filename, messages, ruleToErrorCount)} :
           IF t.threw
           THEN /\ call' = [base EXCEPT !.threw = TRUE,
                                         !.before = getMaxErrors(d1, filename)]
                /\ data' = d1
                /\ changed' = ch0
                /\ UNCHANGED disk
           ELSE
             \E w \in {maybeWriteStateUpdate(args, disk, d1, ch0, filename,
                                             ruleToErrorCount)} :
               /\ disk' = w.disk
               /\ data' = w.data
               /\ changed' = w.changed
               /\ call' = [base EXCEPT
                    !.before = getMaxErrors(d1, filename),
                    !.threw = w.threw,
                    !.result = IF w.threw THEN <<>> ELSE t.messages \o w.additional,
                    !.removedRules = w.update.removedRules,
                    !.increasedRulesCount = w.update.increasedRulesCount,
                    !.decreasedRulesCount = w.update.decreasedRulesCount,
                    !.updated = w.updated]

\* the operations whose result the caller takes
Returning == {"postprocess", "updateMaxErrors", "getMaxErrors", "flushChanges", "readSync"}

\* the caller (ESLint, or the user of the store) takes what the call returned
\* or threw and goes on
Return ==
  /\ call.op \in Returning
  /\ UNCHANGED <<codec, procs, tmp, context, CLI_ARGS, ANY_CONFIG_DISABLED, fileLock>>
  /\ call' = Call("returned", call.seq, "", fromConfig, <<>>, EmptyMap)
  /\ UNCHANGED <<disk, data, changed, isEslintCli, temporaryFileArgs>>

\* SeatbeltFile.removeFile: all records of a source file are deleted and the
\* store is marked dirty
removeFile(d, ch, filename) ==
  [data |-> [f \in DOMAIN d \ {filename} |-> d[f]], changed |-> TRUE]

\* SeatbeltFile.filenames: the keys of this.data
filenames(d) == DOMAIN d

\* cleanUpRemovedFiles that writes back what it read
cleanUpRemovedFilesKeepingAll(file, existing) ==
  [disk |-> FileText(toDataString(readSync(file).data)),
   data |-> linesAfterSerialize(readSync(file).data), changed |-> FALSE]

\* pluginGlobals.cleanUpRemovedFiles for the record file of one args:
\* existing are the source files fs.existsSync finds
cleanUpRemovedFiles(file, existing) ==
  LET RECURSIVE Sweep(_, _)
      Sweep(s, i) ==
        IF i > Len(FileOrder) THEN s
        ELSE IF FileOrder[i] \in filenames(s.data) /\ FileOrder[i] \notin existing
        THEN Sweep(removeFile(s.data, s.changed, FileOrder[i]), i + 1)
        ELSE Sweep(s, i + 1)
      swept == Sweep(readSync(file), 1)
  IN  [disk |-> FileText(toDataString(swept.data)),
       data |-> linesAfterSerialize(swept.data), changed |-> swept.changed]

\* pluginGlobals.handleEslintCliExit, the "exit" handler of an ESLint CLI
\* process: the sweep of every record file named by CLI_ARGS.  The returned
\* call keeps the source files found on disk and the record file as the
\* sweep found it.
HandleEslintCliExit ==
  /\ call.op \in Idle
  /\ isEslintCli
  /\ \E existing \in SUBSET Files :
     \E s \in {IF ANY_CONFIG_DISABLED \/ CLI_ARGS = {}
               THEN [disk |-> disk, data |-> data, changed |-> changed]
               ELSE cleanUpRemovedFiles(disk, existing)} :
       /\ disk' = s.disk
       /\ data' = s.data
       /\ changed' = s.changed
       /\ call' = [existing |-> existing, swept |-> disk]
                    @@ Call("exit", call.seq, "", fromConfig, <<>>, EmptyMap)
  /\ UNCHANGED <<isEslintCli, temporaryFileArgs, codec, procs, tmp, context,
                 CLI_ARGS, ANY_CONFIG_DISABLED, fileLock>>

Next ==
  \/ \E f \in LintedFiles : Preprocess(f)
  \/ \E f \in LintedFiles, args \in SeatbeltArgs : Configure(f, args)
  \/ \E f \in LintedFiles, messages \in MessageLists : Postprocess(f, messages)
  \/ Return
  \/ HandleEslintCliExit

Spec == Init /\ [][Next]_vars

\* an ESLint CLI process in which every effective policy is frozen: every
\* linted file is configured, with frozen: true
NextFrozen ==
  \/ \E f \in LintedFiles : Preprocess(f)
  \/ \E f \in LintedFiles, args \in {a \in SeatbeltArgs : a.frozen} : Configure(f, args)
  \/ \E f \in LintedFiles, messages \in MessageLists :
       call.op = "configure" /\ Postprocess(f, messages)
  \/ Return
  \/ HandleEslintCliExit

InitFrozen == Init /\ isEslintCli

SpecFrozen == InitFrozen /\ [][NextFrozen]_vars

\* an ESLint CLI process that lints the same file once more than a run does
\* (a later pass over the file, under the policy in force by then), with the
\* store it cached: no policy disabled or threadsafe
NextRelint ==
  \/ \E f \in LintedFiles : PreprocessPass(f, MaxFiles + 1)
  \/ \E f \in LintedFiles, args \in {a \in SeatbeltArgs : ~a.disable /\ ~a.threadsafe} :
       Configure(f, args)
  \/ \E f \in LintedFiles, messages \in MessageLists :
       call.op = "configure" /\ Postprocess(f, messages)
  \/ Return
  \/ HandleEslintCliExit

SpecRelint == InitFrozen /\ [][NextRelint]_vars

\* ------------------------------------------ the store used directly (its API)
\* largest count of one rule a direct caller reports
MaxObserved == 3

\* the policies updateMaxErrors distinguishes (it reads neither disable nor
\* threadsafe)
StoreArgs == {a \in SeatbeltArgs : ~a.disable /\ ~a.threadsafe}

\* the ruleToErrorCount maps a caller passes: counts of enabled rules, the
\* first rule with every count, the others with one error or none
Observations ==
  {m \in UNION {[S -> 1..MaxObserved] : S \in SUBSET LintRules} :
     \A r \in DOMAIN m \ {RuleOrder[1]} : m[r] = 1}

InitStore == Init /\ ~isEslintCli

\* seatbeltFile.updateMaxErrors(filename, args, ruleToErrorCount)
UpdateMaxErrors(filename, args, ruleToErrorCount) ==
  /\ call.op \in Idle
  /\ UNCHANGED <<codec, procs, tmp, context, CLI_ARGS, ANY_CONFIG_DISABLED, fileLock>>
  /\ call.seq < MaxCalls
  /\ \E u \in {updateMaxErrors(data, changed, filename, args, ruleToErrorCount)} :
       /\ data' = u.data
       /\ changed' = u.changed
       /\ call' = [Call("updateMaxErrors", call.seq + 1, filename, args, <<>>,
                        ruleToErrorCount) EXCEPT
            !.before = getMaxErrors(data, filename),
            !.removedRules = u.removedRules,
            !.increasedRulesCount = u.increasedRulesCount,
            !.decreasedRulesCount = u.decreasedRulesCount]
  /\ UNCHANGED <<disk, isEslintCli, temporaryFileArgs>>

\* seatbeltFile.getMaxErrors(filename)
GetMaxErrors(filename) ==
  /\ call.op \in Idle
  /\ UNCHANGED <<codec, procs, tmp, context, CLI_ARGS, ANY_CONFIG_DISABLED, fileLock>>
  /\ data' = materialize(data, filename)
  /\ call' = Call("getMaxErrors", call.seq, filename, fromConfig, <<>>,
                  getMaxErrors(data, filename).map)
  /\ UNCHANGED <<disk, changed, isEslintCli, temporaryFileArgs>>

\* seatbeltFile.flushChanges()
FlushChanges ==
  /\ call.op \in Idle
  /\ UNCHANGED <<codec, procs, tmp, context, CLI_ARGS, ANY_CONFIG_DISABLED, fileLock>>
  /\ \E fl \in {flushChanges(disk, data, changed)} :
       /\ disk' = fl.disk
       /\ data' = fl.data
       /\ changed' = fl.changed
       /\ call' = [Call("flushChanges", call.seq, "", fromConfig, <<>>, EmptyMap)
                     EXCEPT !.updated = fl.updated]
  /\ UNCHANGED <<isEslintCli, temporaryFileArgs>>

\* seatbeltFile.readSync()
ReadSync ==
  /\ call.op \in Idle
  /\ UNCHANGED <<codec, procs, tmp, context, CLI_ARGS, ANY_CONFIG_DISABLED, fileLock>>
  /\ \E rd \in {readSyncOf(disk, data, changed)} :
       /\ data' = rd.data
       /\ changed' = rd.changed
       /\ call' = [Call("readSync", call.seq, "", fromConfig, <<>>, EmptyMap)
                     EXCEPT !.threw = rd.threw]
  /\ UNCHANGED <<disk, isEslintCli, temporaryFileArgs>>

\* the record file is replaced, outside the program, by a malformed text
EditRecordFile(text) ==
  /\ call.op \in Idle
  /\ "text" \notin DOMAIN disk
  /\ disk' = [exists |-> TRUE, lines |-> <<>>, text |-> text]
  /\ UNCHANGED <<data, changed, isEslintCli, temporaryFileArgs, call>>
  /\ UNCHANGED <<codec, procs, tmp, context, CLI_ARGS, ANY_CONFIG_DISABLED, fileLock>>

StoreNext ==
  \/ \E f \in LintedFiles, args \in StoreArgs, ruleToErrorCount \in Observations :
       UpdateMaxErrors(f, args, ruleToErrorCount)
  \/ \E f \in LintedFiles : GetMaxErrors(f)
  \/ FlushChanges
  \/ ReadSync
  \/ \E text \in MalformedTexts : EditRecordFile(text)
  \/ Return

SpecStore == InitStore /\ [][StoreNext]_vars

\* ------------------------------------------------------------- properties
\* what the call in `call` found and left, for the file it was about
Before(r) == IF r \in DOMAIN call.before.map THEN call.before.map[r] ELSE 0
Observed(r) ==
  IF r \in DOMAIN call.ruleToErrorCount THEN call.ruleToErrorCount[r] ELSE 0
After(r) == Allowance(data, call.filename, r)
OnDisk(r) == Allowance(openSync(disk), call.filename, r)
RecordedAfter(r) == r \in DOMAIN getMaxErrors(data, call.filename).map
Covered(r) == ruleSetHas(call.args.allowIncreaseRules, r)
Kept(r) == ruleSetHas(call.args.keepRules, r)
\* the positions of the countable diagnostics of rule r in the input
CountableOf(r) ==
  {i \in 1..Len(call.messages) :
     isCountableLintError(call.messages[i]) /\ call.messages[i].ruleId = r}
\* postprocess returned (did not throw) one diagnostic per input diagnostic
Returned == ~call.threw /\ Len(call.result) >= Len(call.messages)
Reconciled == call.op = "postprocess" /\ ~call.args.disable

\* C1: after a non-frozen updateMaxErrors, the allowance of a rule that
\* allowIncreaseRules does not cover (an absent record counting as 0) is at
\* most what it was before the call.
C1_RatchetMonotone ==
  (call.op = "updateMaxErrors" /\ ~call.args.frozen) =>
    \A r \in Rules : ~Covered(r) => After(r) <= Before(r)

\* C1 witness: a non-frozen update that observed more errors of an uncovered
\* rule than its allowance, and left the allowance where it was.
C1_Witness ==
  /\ call.op = "updateMaxErrors"
  /\ ~call.args.frozen
  /\ \E r \in Rules :
       ~Covered(r) /\ 0 < Before(r) /\ Before(r) < Observed(r) /\ After(r) = Before(r)

\* C2: a frozen updateMaxErrors leaves toDataString() and getMaxErrors(file)
\* of every file as they were before the call.
C2_FrozenNeverMutates ==
  [][(call'.op = "updateMaxErrors" /\ call'.args.frozen) =>
       /\ toDataString(data') = toDataString(data)
       /\ \A f \in Files : getMaxErrors(data', f) = getMaxErrors(data, f)]_vars

\* C3: under a frozen policy, when a rule is observed c times with
\* 0 < c < A, its allowance, postprocess returns an error-severity diagnostic
\* of that rule reporting expected A, found c.
C3_FrozenDecreaseIsError ==
  \A r \in Rules :
    (Reconciled /\ call.args.frozen /\ 0 < Observed(r) /\ Observed(r) < Before(r)) =>
      /\ Returned
      /\ \E i \in 1..Len(call.result) :
           /\ call.result[i].ruleId = r
           /\ call.result[i].severity = 2
           /\ call.result[i].note =
                messageFrozenUnderMaxErrorCountText(call.filename, Observed(r), Before(r))

\* C4: under a frozen policy, when a recorded rule is absent from the
\* observation and keepRules does not cover it, postprocess returns normally
\* and its result holds the synthetic diagnostic of that rule (line 1,
\* column 0, error severity, expected A, found 0).
C4_FrozenRemovedIsReported ==
  \A r \in Rules :
    (Reconciled /\ call.args.frozen /\ r \in DOMAIN call.before.map
       /\ r \notin DOMAIN call.ruleToErrorCount /\ ~Kept(r)) =>
      /\ Returned
      /\ \E i \in 1..Len(call.result) :
           call.result[i] = FrozenRemovedMessage(call.filename, r, call.before.map[r])

\* C5: when a rule not covered by allowIncreaseRules is observed c times
\* with c > A > 0 (policy not disabled), postprocess returns each of its
\* countable diagnostics at error severity with the notice (c, A, c - A),
\* and the allowance is still A.
C5_ViolationStaysError ==
  \A r \in Rules :
    (Reconciled /\ ~Covered(r) /\ 0 < Before(r) /\ Before(r) < Observed(r)) =>
      /\ Returned
      /\ \A i \in CountableOf(r) :
           call.result[i] =
             [call.messages[i] EXCEPT
                !.note = Note("over", <<Observed(r), Before(r), Observed(r) - Before(r)>>)]
      /\ After(r) = Before(r)

\* C6: when a rule with no allowance (no record, or a record of 0) that
\* allowIncreaseRules does not cover is observed, postprocess returns each of
\* its diagnostics as it was, and no record of the rule is created.
C6_UntrackedPassThrough ==
  \A r \in Rules :
    (call.op = "postprocess" /\ ~Covered(r) /\ Before(r) = 0 /\ Observed(r) > 0) =>
      /\ Returned
      /\ \A i \in CountableOf(r) : call.result[i] = call.messages[i]
      /\ After(r) = 0
      /\ RecordedAfter(r) => r \in DOMAIN call.before.map

\* C7: under a policy neither frozen nor disabled, when a rule is observed c
\* times with 0 < c < A, postprocess returns each of its countable
\* diagnostics as a warning, and the allowance is c afterwards, in the store
\* and in the record file.
C7_DecreaseTightens ==
  \A r \in Rules :
    (Reconciled /\ ~call.args.frozen /\ 0 < Observed(r) /\ Observed(r) < Before(r)) =>
      /\ Returned
      /\ \A i \in CountableOf(r) :
           call.result[i].severity = 1 /\ call.result[i].ruleId = r
      /\ After(r) = Observed(r)
      /\ OnDisk(r) = Observed(r)

\* C7 witness: a reconciliation that returned a tightening notice and wrote
\* the smaller allowance.
C7_Witness ==
  /\ Reconciled /\ ~call.args.frozen /\ call.updated
  /\ \E i \in 1..Len(call.result) :
       /\ call.result[i].note.kind = "under"
       /\ call.result[i].severity = 1
       /\ Observed(call.result[i].ruleId) < Before(call.result[i].ruleId)
       /\ OnDisk(call.result[i].ruleId) = Observed(call.result[i].ruleId)

\* C8: under a policy neither frozen nor disabled, when a rule covered by
\* allowIncreaseRules is observed c times with c above its allowance (none
\* counting as 0), postprocess returns each of its countable diagnostics as
\* a warning, and the allowance is c afterwards, in the store and in the
\* record file.
C8_AllowedIncreaseRaises ==
  \A r \in Rules :
    (Reconciled /\ ~call.args.frozen /\ Covered(r) /\ Observed(r) > Before(r)) =>
      /\ Returned
      /\ \A i \in CountableOf(r) :
           call.result[i].severity = 1 /\ call.result[i].ruleId = r
      /\ After(r) = Observed(r)
      /\ OnDisk(r) = Observed(r)

\* C8 witness: a reconciliation that returned an increase notice for a rule
\* and wrote the larger allowance.
C8_Witness ==
  /\ Reconciled /\ ~call.args.frozen /\ call.updated
  /\ \E i \in 1..Len(call.result) :
       /\ call.result[i].note.kind = "increase"
       /\ call.result[i].severity = 1
       /\ Covered(call.result[i].ruleId)
       /\ Observed(call.result[i].ruleId) > Before(call.result[i].ruleId)
       /\ OnDisk(call.result[i].ruleId) = Observed(call.result[i].ruleId)

\* C8 as stated, for every non-frozen policy, disabled or not: the covered
\* rule's diagnostics are warnings and the allowance is c afterwards.
C8_AsStated ==
  \A r \in Rules :
    (call.op = "postprocess" /\ ~call.args.frozen /\ Covered(r)
       /\ Observed(r) > Before(r)) =>
      /\ Returned
      /\ \A i \in CountableOf(r) : call.result[i].severity = 1
      /\ After(r) = Observed(r)

\* C9: when a rule is observed exactly A > 0 times, A its allowance (policy
\* not disabled), postprocess returns each of its countable diagnostics as a
\* warning and the allowance is unchanged, under a frozen policy as under
\* any other.
C9_AtLimitIsWarning ==
  \A r \in Rules :
    (Reconciled /\ 0 < Before(r) /\ Observed(r) = Before(r)) =>
      /\ Returned
      /\ \A i \in CountableOf(r) : call.result[i].severity = 1
      /\ After(r) = Before(r)

\* C10: a non-frozen updateMaxErrors removes every recorded rule that is
\* absent from the observation, unless keepRules covers it, and then its
\* record is kept as it was; on the record {a: 5, b: 3, c: 99} with a
\* observed 3 times and keepRules = {c} it leaves {a: 3, c: 99}, reports one
\* decreased rule and sets the dirty flag.
C10_RemovalUnlessKept ==
  (call.op = "updateMaxErrors" /\ ~call.args.frozen) =>
    /\ \A r \in DOMAIN call.before.map \ DOMAIN call.ruleToErrorCount :
         IF Kept(r)
         THEN RecordedAfter(r) /\ After(r) = call.before.map[r]
         ELSE ~RecordedAfter(r)
    /\ (/\ call.before.map = TestRecord
        /\ call.ruleToErrorCount = [r \in {RuleOrder[1]} |-> 3]
        /\ call.args.keepRules = RuleSetOf({DisabledRule})) =>
         /\ getMaxErrors(data, call.filename).map =
              [r \in {RuleOrder[1], DisabledRule} |-> IF r = DisabledRule THEN 99 ELSE 3]
         /\ call.decreasedRulesCount = 1
         /\ call.removedRules = {RuleOrder[2]}
         /\ changed

\* C10 witness: the update of the unit test has run.
C10_Witness ==
  /\ call.op = "updateMaxErrors"
  /\ ~call.args.frozen
  /\ call.before.map = TestRecord
  /\ call.ruleToErrorCount = [r \in {RuleOrder[1]} |-> 3]
  /\ call.args.keepRules = RuleSetOf({DisabledRule})
  /\ ~RecordedAfter(RuleOrder[2])
  /\ After(DisabledRule) = 99
  /\ changed

\* what the update in `call`, made once more with the same arguments on
\* store contents d with dirty flag ch, reports and leaves
UpdateAgain(d, ch) ==
  updateMaxErrors(d, ch, call.filename, call.args, call.ruleToErrorCount)
NoChangeReported(u) ==
  u.increasedRulesCount = 0 /\ u.decreasedRulesCount = 0 /\ u.removedRules = {}

\* C11: after a non-frozen updateMaxErrors under a policy with no
\* allowIncreaseRules, the same update made again (at once, or after
\* flushChanges) reports no increased, decreased or removed rule and leaves
\* the file's mapping as it is; the dirty flag is false after the first flush
\* and stays false, and the second flushChanges writes nothing.
C11_Idempotent ==
  (call.op = "updateMaxErrors" /\ ~call.args.frozen
     /\ call.args.allowIncreaseRules = RuleSetOf({})) =>
    \E first \in {flushChanges(disk, data, changed)} :
    \E again \in {UpdateAgain(data, changed)} :
    \E second \in {UpdateAgain(first.data, first.changed)} :
    \E last \in {flushChanges(first.disk, second.data, second.changed)} :
      /\ NoChangeReported(again)
      /\ getMaxErrors(again.data, call.filename) = getMaxErrors(data, call.filename)
      /\ again.changed = changed
      /\ NoChangeReported(second)
      /\ getMaxErrors(second.data, call.filename) = getMaxErrors(data, call.filename)
      /\ ~first.changed
      /\ ~second.changed
      /\ ~last.updated
      /\ last.disk = first.disk

\* C11 witness: a non-frozen update without allowIncreaseRules that lowered
\* one allowance and removed a rule, so that the first flush has to write.
C11_Witness ==
  /\ call.op = "updateMaxErrors"
  /\ ~call.args.frozen
  /\ call.args.allowIncreaseRules = RuleSetOf({})
  /\ call.decreasedRulesCount > 0
  /\ call.removedRules # {}
  /\ changed
  /\ flushChanges(disk, data, changed).disk # disk

\* ---------------------------------------------------------------------
\* The codec on its own: a text is parsed, or a mapping is given to fromJSON;
\* the store is read with getMaxErrors, written with writeSync and read
\* back, or exported with toJSON.
\* ---------------------------------------------------------------------
\* file and rule names, one of each with a character that must be escaped
CodecFileOrder == << <<"f">>, <<"g", Char.tab>> >>
CodecRuleOrder == << <<"r">>, <<"#", Char.quote>> >>

RecordLine(i, j, n) ==
  encodeLine(TextLine(CodecFileOrder[i], CodecRuleOrder[j], JSONNumber(FALSE, n, <<>>)))
\* a line of the first file and rule whose third field is the given text
LineWithCount(third) ==
  JSONstringify(CodecFileOrder[1]) \o <<Char.tab>> \o JSONstringify(CodecRuleOrder[1])
    \o <<Char.tab>> \o third \o <<Char.nl>>
\* the lines of the texts read: a comment, an empty line, records (two of
\* them of the same file and rule), a last line without its newline, a line
\* of two fields, and lines whose count is negative, fractional, no JSON, or
\* a string
InputLines ==
  { <<"#", "c", Char.nl>>, <<Char.nl>>,
    RecordLine(1, 1, 2), RecordLine(1, 1, 10), RecordLine(2, 2, 0),
    SubSeq(RecordLine(1, 2, 2), 1, Len(RecordLine(1, 2, 2)) - 1),
    JSONstringify(CodecFileOrder[1]) \o <<Char.tab>>
      \o JSONstringify(CodecRuleOrder[1]) \o <<Char.nl>>,
    LineWithCount(<<"-", "1">>), LineWithCount(<<"1", ".", "5">>),
    LineWithCount(<<"x">>), LineWithCount(<<Char.quote, "x", Char.quote>>) }
InputTexts ==
  {Flatten(ls) : ls \in UNION {[1..n -> InputLines] : n \in 0..MaxLines}}

\* the mappings fromJSON is given: some records, and files without a record
JsonMaps ==
  LET CodecFiles == {CodecFileOrder[i] : i \in 1..2}
      CodecKeys == CodecFiles \X {CodecRuleOrder[i] : i \in 1..2}
      JsonOf(m, empties) ==
        [f \in {k[1] : k \in DOMAIN m} \cup empties |->
           [r \in {k[2] : k \in {k \in DOMAIN m : k[1] = f}} |->
              JSONNumber(FALSE, m[<<f, r>>], <<>>)]]
  IN  {JsonOf(m, e) :
         m \in UNION {[ks -> {0, 2, 10}] :
                        ks \in {ks \in SUBSET CodecKeys : Cardinality(ks) <= MaxEntries}},
         e \in SUBSET CodecFiles}

CodecState(stage, origin, input) ==
  [stage |-> stage, origin |-> origin, input |-> input,
   data |-> [f \in {} |-> 0], comments |-> <<>>,
   error |-> DecodeFailure(<<>>, 0), output |-> <<>>,
   reread |-> parseText(<<>>)]

InitCodec ==
  /\ disk = NoFile
  /\ data = openSync(disk)
  /\ changed = FALSE
  /\ isEslintCli = FALSE
  /\ temporaryFileArgs = NoArgs
  /\ call = Call("init", 0, "", fromConfig, <<>>, EmptyMap)
  /\ codec \in {CodecState("text", "text", t) : t \in InputTexts}
                 \cup {CodecState("json", "json", j) : j \in JsonMaps}
  /\ procs = NoProcs
  /\ tmp = NoTmp
  /\ context = NoContext
  /\ CLI_ARGS = {}
  /\ ANY_CONFIG_DISABLED = FALSE
  /\ fileLock = NoLock

CodecRest == <<disk, data, changed, isEslintCli, temporaryFileArgs, call, procs, tmp,
               context, CLI_ARGS, ANY_CONFIG_DISABLED, fileLock>>

\* SeatbeltFile.parse(filename, text)
Parse ==
  /\ codec.stage = "text"
  /\ \E p \in {parseText(codec.input)} :
       codec' = [codec EXCEPT !.stage = IF p.ok THEN "store" ELSE "failed",
                              !.data = p.data, !.comments = p.comments,
                              !.error = p.error]
  /\ UNCHANGED CodecRest

\* SeatbeltFile.fromJSON(filename, json)
FromJSON ==
  /\ codec.stage = "json"
  /\ codec' = [codec EXCEPT !.stage = "store", !.data = fromJSON(codec.input),
                            !.comments = DEFAULT_FILE_HEADER]
  /\ UNCHANGED CodecRest

\* getMaxErrors(filename) on a file whose mapping is not materialised yet
Materialize(filename) ==
  /\ codec.stage = "store"
  /\ filename \in DOMAIN codec.data
  /\ ~codec.data[filename].cached
  /\ codec' = [codec EXCEPT !.data = materialize(codec.data, filename)]
  /\ UNCHANGED CodecRest

\* writeSync: the record file gets toDataString()
WriteSync ==
  /\ codec.stage = "store"
  /\ codec' = [codec EXCEPT !.stage = "written",
                            !.output = toDataStringText(codec.comments, codec.data),
                            !.data = linesAfterToDataString(codec.data)]
  /\ UNCHANGED CodecRest

\* the written text is parsed again
ReadBack ==
  /\ codec.stage = "written"
  /\ codec' = [codec EXCEPT !.stage = "reread", !.reread = parseText(codec.output)]
  /\ UNCHANGED CodecRest

\* toJSON()
ToJSON ==
  /\ codec.stage = "store"
  /\ codec' = [codec EXCEPT !.stage = "exported", !.output = toJSON(codec.data),
                            !.data = [f \in DOMAIN codec.data |->
                                        materialize(codec.data, f)[f]]]
  /\ UNCHANGED CodecRest

CodecNext ==
  \/ Parse
  \/ FromJSON
  \/ \E filename \in {CodecFileOrder[i] : i \in 1..2} : Materialize(filename)
  \/ WriteSync
  \/ ReadBack
  \/ ToJSON

SpecCodec == InitCodec /\ [][CodecNext]_vars

\* the (file, rule, count) records of a store
RecordsOf(d) ==
  UNION {{<<f, r, getMaxErrors(d, f).map[r]>> : r \in DOMAIN getMaxErrors(d, f).map} :
           f \in DOMAIN d}

\* a store holding valid records: counts are non-negative integers, and a
\* file whose lines are still the decoded ones has one newline-terminated
\* line per rule
ValidStore(d) ==
  LET ValidLinesOf(lines) ==
        /\ \A i \in 1..Len(lines) :
             /\ IsCount(lines[i].maxErrors)
             /\ lines[i].encoded[Len(lines[i].encoded)] = Char.nl
        /\ \A i, k \in 1..Len(lines) : lines[i].ruleId = lines[k].ruleId => i = k
  IN  \A f \in DOMAIN d :
        IF d[f].cached
        THEN \A r \in DOMAIN d[f].maxErrors : IsCount(d[f].maxErrors[r])
        ELSE ValidLinesOf(d[f].lines)

SortedAndTerminated(text) ==
  LET lines == SelectSeq(SplitAfterNewline(text, <<>>), IsDataLine)
  IN  /\ \A i \in 1..Len(lines) : lines[i][Len(lines[i])] = Char.nl
      /\ \A i, k \in 1..Len(lines) : i < k => ~TextBefore(lines[k], lines[i])

\* C13: a record file whose data lines are sorted and newline-terminated,
\* read and written back with nothing in between, has the same content,
\* character for character
C13_ReadWriteIdentity ==
  (/\ codec.stage = "written"
   /\ codec.origin = "text"
   /\ \A f \in DOMAIN codec.data : ~codec.data[f].cached
   /\ SortedAndTerminated(codec.input)) =>
    codec.output = codec.input

\* C14: toJSON of the store that fromJSON builds from a nested mapping is
\* that mapping, and importing and exporting the result once more gives the
\* same mapping again
C14_JsonRoundTrip ==
  (codec.stage = "exported" /\ codec.origin = "json") =>
    /\ codec.output = codec.input
    /\ toJSON(fromJSON(codec.output)) = codec.input

\* an exported mapping with two rules of one file and a file without rules
C14_Witness ==
  /\ codec.stage = "exported"
  /\ codec.origin = "json"
  /\ \E f, g \in DOMAIN codec.input :
       /\ Cardinality(DOMAIN codec.input[f]) = 2
       /\ DOMAIN codec.input[g] = {}

\* C18: every maxErrors value of a store that parse produced is a
\* non-negative integer (a line whose third field is negative, fractional
\* or no number is a parse error, not a record)
C18_CountIsNatural ==
  (codec.stage = "store" /\ codec.origin = "text") =>
    \A f \in DOMAIN codec.data :
      /\ \A i \in 1..Len(codec.data[f].lines) :
           IsCount(codec.data[f].lines[i].maxErrors)
      /\ \A rec \in RecordsOf(codec.data) : IsCount(rec[3])

\* the data lines of a text as decodeLine reads them, one by one
DecodedLinesOf(text) ==
  decodeLines(SelectSeq(SplitAfterNewline(text, <<>>), IsDataLine), 0)

\* C19: the data lines toDataString emits hold at most one record per
\* (sourceFile, ruleId), whatever text the store was decoded from
C19_KeysUnique ==
  codec.stage = "written" =>
    LET lines == DecodedLinesOf(codec.output)
    IN  \A i, k \in 1..Len(lines) :
          (/\ lines[i].ok /\ lines[k].ok
           /\ lines[i].filename = lines[k].filename
           /\ lines[i].ruleId = lines[k].ruleId) => i = k

\* the 1-based number, among all lines of the text, of the first data line
\* that does not decode
FirstMalformedLine(text) ==
  LET split == SplitAfterNewline(text, <<>>)
      bad == {i \in 1..Len(split) :
                IsDataLine(split[i]) /\ ~decodeLine(split[i], 0).ok}
  IN  CHOOSE i \in bad : \A k \in bad : i <= k

\* C20: the error of a failed parse names the malformed line by its 1-based
\* number in the input text, comment and blank lines counted, and gives the
\* line's content
C20_ErrorNamesLine ==
  codec.stage = "failed" =>
    /\ codec.error.line = FirstMalformedLine(codec.input)
    /\ codec.error.content =
         Trim(SplitAfterNewline(codec.input, <<>>)[FirstMalformedLine(codec.input)])

\* ---------------------------------------------------------------------
\* Two ESLint processes on one record file.  Each lints one source file of
\* its own; the steps of a process that touch the file system (reading the
\* record file, writing the temporary file, renaming it) interleave with the
\* other's.
\* ---------------------------------------------------------------------
ProcIds == {1, 2}
ProcFile(p) == FileOrder[p]

\* each process's configuration: the defaults, with or without threadsafe
ProcArgs(threadsafe) == [fromConfig EXCEPT !.threadsafe = threadsafe]
\* what a process counts in its file: no error, or errors of the first rule
ProcCounts == {EmptyMap} \cup {[r \in {RuleOrder[1]} |-> n] : n \in 1..MaxCount}
\* the record file the processes find: none, or one record for each file
ProcInitialFiles ==
  {NoFile,
   FileText(LinesOfMap(FileOrder[1], [r \in {RuleOrder[1]} |-> MaxCount], 1)
              \o LinesOfMap(FileOrder[2], [r \in {RuleOrder[1]} |-> MaxCount], 1))}

Proc(pc, args, counts) ==
  [pc |-> pc, args |-> args, counts |-> counts,
   data |-> [f \in {} |-> 0], changed |-> FALSE, updated |-> FALSE]

InitProcs ==
  /\ disk \in ProcInitialFiles
  /\ data = openSync(NoFile)
  /\ changed = FALSE
  /\ isEslintCli \in BOOLEAN
  /\ temporaryFileArgs = NoArgs
  /\ call = Call("init", 0, "", fromConfig, <<>>, EmptyMap)
  /\ codec = NoCodec
  /\ \E threadsafe \in BOOLEAN :
       procs \in [ProcIds -> {Proc("start", ProcArgs(threadsafe), c) : c \in ProcCounts}]
  /\ tmp = [p \in ProcIds |-> NoFile]
  /\ context = NoContext
  /\ CLI_ARGS = {}
  /\ ANY_CONFIG_DISABLED = FALSE
  /\ fileLock = NoLock

ProcRest == <<data, changed, isEslintCli, temporaryFileArgs, call, codec, context,
             CLI_ARGS, ANY_CONFIG_DISABLED, fileLock>>

\* fs.writeFileSync that writes to the record file itself
writeFileInPlace(file, temps, p, lines) ==
  [disk |-> FileText(lines), tmp |-> temps]

\* fs.writeFileSync(tempFile, dataString): the temporary file is named after
\* the process, so only the writer's own temporary file is touched
writeFileSync(file, temps, p, lines) ==
  [disk |-> file, tmp |-> [temps EXCEPT ![p] = FileText(lines)]]

\* pluginGlobals.getSeatbeltFile: the first use opens the record file
Load(p) ==
  /\ procs[p].pc = "start"
  /\ procs' = [procs EXCEPT ![p] = [@ EXCEPT !.pc = "loaded",
                                             !.data = openSync(disk)]]
  /\ UNCHANGED <<disk, tmp>>
  /\ UNCHANGED ProcRest

\* postprocess that goes on with the records it has in memory
ReloadSkipped(p) ==
  /\ procs[p].pc = "loaded"
  /\ procs' = [procs EXCEPT ![p] = [@ EXCEPT !.pc = "reloaded"]]
  /\ UNCHANGED <<disk, tmp>>
  /\ UNCHANGED ProcRest

\* postprocess: seatbeltFile.readSync() if threadsafe or not the ESLint CLI
Reload(p) ==
  /\ procs[p].pc = "loaded"
  /\ procs' = [procs EXCEPT ![p] =
       IF procs[p].args.threadsafe \/ ~isEslintCli
       THEN [@ EXCEPT !.pc = "reloaded", !.data = readSync(disk).data,
                      !.changed = readSync(disk).changed]
       ELSE [@ EXCEPT !.pc = "reloaded"]]
  /\ UNCHANGED <<disk, tmp>>
  /\ UNCHANGED ProcRest

\* maybeWriteStateUpdate up to flushChanges: the refresh that stands in for
\* the lock, updateMaxErrors, and the decision to write
Reconcile(p) ==
  /\ procs[p].pc = "reloaded"
  /\ \E base \in {IF procs[p].args.threadsafe THEN readSync(disk)
                  ELSE [data |-> procs[p].data, changed |-> procs[p].changed]} :
     \E u \in {updateMaxErrors(base.data, base.changed, ProcFile(p),
                               procs[p].args, procs[p].counts)} :
       procs' = [procs EXCEPT ![p] =
         [@ EXCEPT !.data = u.data, !.changed = u.changed,
                   !.pc = IF u.changed /\ ~procs[p].args.frozen
                          THEN "flushing" ELSE "done"]]
  /\ UNCHANGED <<disk, tmp>>
  /\ UNCHANGED ProcRest

\* writeSync, first half: toDataString and fs.writeFileSync(tempFile, ...);
\* a process that dies while writing leaves the lines written so far
WriteTemp(p) ==
  /\ procs[p].pc = "flushing"
  /\ \E lines \in {toDataString(procs[p].data)} :
     \E k \in 0..Len(lines) :
     \E w \in {writeFileSync(disk, tmp, p, SubSeq(lines, 1, k))} :
       /\ disk' = w.disk
       /\ tmp' = w.tmp
       /\ procs' = [procs EXCEPT ![p] =
            [@ EXCEPT !.data = linesAfterSerialize(procs[p].data),
                      !.pc = IF k = Len(lines) THEN "written" ELSE "crashed"]]
  /\ UNCHANGED ProcRest

\* writeSync, second half: fs.renameSync(tempFile, this.filename), and
\* flushChanges clears the dirty flag
Rename(p) ==
  /\ procs[p].pc = "written"
  /\ disk' = tmp[p]
  /\ tmp' = [tmp EXCEPT ![p] = NoFile]
  /\ procs' = [procs EXCEPT ![p] = [@ EXCEPT !.pc = "done", !.changed = FALSE,
                                             !.updated = TRUE]]
  /\ UNCHANGED ProcRest

\* the process dies between the write of the temporary file and the rename
Crash(p) ==
  /\ procs[p].pc = "written"
  /\ procs' = [procs EXCEPT ![p] = [@ EXCEPT !.pc = "crashed"]]
  /\ UNCHANGED <<disk, tmp>>
  /\ UNCHANGED ProcRest

\* fs.renameSync throws (os.tmpdir() on another device, no permission)
RenameFails(p) ==
  /\ procs[p].pc = "written"
  /\ procs' = [procs EXCEPT ![p] = [@ EXCEPT !.pc = "failed"]]
  /\ UNCHANGED <<disk, tmp>>
  /\ UNCHANGED ProcRest

ProcsNext ==
  \E p \in ProcIds :
    \/ Load(p)
    \/ Reload(p)
    \/ Reconcile(p)
    \/ WriteTemp(p)
    \/ Rename(p)
    \/ Crash(p)
    \/ RenameFails(p)

SpecProcs == InitProcs /\ [][ProcsNext]_vars

\* C15: once both processes have reconciled and flushed, the record file
\* holds, for each process's source file, the allowances that process
\* computed
C15_NoLostUpdate ==
  (\A p \in ProcIds : procs[p].pc = "done") =>
    \A p \in ProcIds :
      getMaxErrors(openSync(disk), ProcFile(p)).map
        = getMaxErrors(procs[p].data, ProcFile(p)).map

\* a process is between the reload of maybeWriteStateUpdate and the end of
\* its flush
InUpdate(p) == procs[p].pc \in {"flushing", "written"}

\* C16: with threadsafe, no two processes are between their reload and their
\* flush of the record file at the same time
C16_Serialized ==
  \A p, q \in ProcIds :
    (/\ p # q
     /\ procs[p].args.threadsafe
     /\ procs[q].args.threadsafe
     /\ InUpdate(p)) => ~InUpdate(q)

\* C17: the record file changes only by the rename of a completely written
\* temporary file, to the writer's full serialization; writing the
\* temporary file, dying, or a failing rename leave it as it was
C17_AtomicWrite ==
  [][/\ disk' # disk =>
          \E p \in ProcIds :
            /\ procs[p].pc = "written"
            /\ procs'[p].pc = "done"
            /\ disk' = FileText(toDataString(procs[p].data))
     /\ \A p \in ProcIds :
          (procs[p].pc # procs'[p].pc /\ procs'[p].pc \in {"written", "crashed", "failed"})
            => disk' = disk]_vars

\* one process died with a partly written temporary file, the other renamed
\* its own over a record file that existed
C17_Witness ==
  \E p, q \in ProcIds :
    /\ procs[p].pc = "crashed"
    /\ tmp[p].exists
    /\ tmp[p].lines # toDataString(procs[p].data)
    /\ procs[q].pc = "done"
    /\ procs[q].updated
    /\ disk = FileText(toDataString(procs[q].data))

\* C21: a record file with a malformed data line gives no store: the reload
\* of an existing store throws and leaves its records and its dirty flag as
\* they were
C21_FailedReloadKeepsStore ==
  [][(/\ call.op \in Idle
      /\ call'.op = "readSync"
      /\ "text" \in DOMAIN disk
      /\ \E i \in 1..Len(DecodedLinesOf(disk.text)) :
           ~DecodedLinesOf(disk.text)[i].ok) =>
       (/\ ~parseText(disk.text).ok
        /\ parseText(disk.text).data = [f \in {} |-> 0]
        /\ call'.threw
        /\ data' = data
        /\ changed' = changed)]_vars

\* a dirty store with records whose reload has thrown
C21_Witness ==
  /\ call.op = "readSync"
  /\ call.threw
  /\ changed
  /\ \E f \in DOMAIN data : getMaxErrors(data, f).map # EmptyMap

\* C22: postprocess never throws: an internal error raised while a file is
\* post-processed is turned into a returned list of diagnostics
C22_ErrorsRecovered ==
  call.op = "postprocess" =>
    /\ ~call.threw
    /\ Len(call.result) >= Len(call.messages)

\* C23: when the policy configured for a file has disable = true,
\* postprocess returns the diagnostics it was given, and the record file,
\* the store and the dirty flag are as they were
C23_DisableBypasses ==
  [][(/\ call.op = "configure"
      /\ call.args.disable
      /\ call'.op = "postprocess") =>
       (/\ ~call'.threw
        /\ call'.result = call'.messages
        /\ disk' = disk
        /\ data' = data
        /\ changed' = changed)]_vars

\* a disabled postprocess of a tracked file whose counts differ from its
\* allowances, its diagnostics returned as given
C23_Witness ==
  /\ call.op = "postprocess"
  /\ call.args.disable
  /\ call.result = call.messages
  /\ call.before.has
  /\ \E r \in Rules : 0 < Observed(r) /\ Observed(r) # Before(r)
  /\ \E r \in Rules : Observed(r) = 0 /\ Before(r) > 0

\* C24: postprocess returns every diagnostic that is no countable error (no
\* rule id, a severity below error, or suppressed) as it was given, and the
\* per-rule counts it reconciles count the countable diagnostics only
C24_OnlyCountableRatcheted ==
  call.op = "postprocess" =>
    /\ ~call.threw
    /\ Len(call.result) >= Len(call.messages)
    /\ \A i \in 1..Len(call.messages) :
         ~isCountableLintError(call.messages[i]) => call.result[i] = call.messages[i]
    /\ \A r \in Rules : Observed(r) = Cardinality(CountableOf(r))

\* C25: when the store has no record of the file and allowIncreaseRules is
\* empty, postprocess returns the diagnostics as it was given them, the
\* store has no entry of the file afterwards, the dirty flag is not set and
\* the record file is not written, whatever was observed
C25_UntrackedStaysUntracked ==
  [][(/\ call'.op = "postprocess"
      /\ ~call'.before.has
      /\ ~call'.args.allowIncreaseRules.all
      /\ call'.args.allowIncreaseRules.rules = {}) =>
       (/\ ~call'.threw
        /\ call'.result = call'.messages
        /\ call'.filename \notin DOMAIN data'
        /\ ~changed'
        /\ disk' = disk
        /\ ~call'.updated)]_vars

\* a file without a record, linted under a policy that is neither frozen nor
\* disabled and covers no rule, with countable errors observed
C25_Witness ==
  /\ call.op = "postprocess"
  /\ ~call.args.disable
  /\ ~call.args.frozen
  /\ ~call.before.has
  /\ ~call.args.allowIncreaseRules.all
  /\ call.args.allowIncreaseRules.rules = {}
  /\ \E r \in Rules : Observed(r) > 1
  /\ call.filename \notin DOMAIN data
  /\ DOMAIN data # {}

\* ------------------------------------------------- configuration (policy)
\* largest number of options that the environment, the shared settings and
\* the rule options of one file mention
MaxOptions == 1

\* a run whose environment (process.env), shared settings (settings.seatbelt)
\* and rule options (options[0]) mention at most MaxOptions options
InitConfig ==
  LET Partial(D, V) == UNION {[S -> V] : S \in SUBSET D}
      BooleanTexts == {"", "0", "FALSE", "yes"}
      RuleSetTexts == {<<>>, <<"ALL">>, <<"rule-b">>, <<"rule-a", ",", "rule-b">>}
      FallbackTexts == {"", "true"}
      RuleSetValues == {[all |-> TRUE, list |-> <<>>], [all |-> FALSE, list |-> <<>>],
                        [all |-> FALSE, list |-> <<"rule-a">>]}
      OptionSets ==
        {K \in SUBSET (BooleanKeys \cup RuleSetKeys) : Cardinality(K) <= MaxOptions}
      Configs(K) ==
        {b @@ r : b \in Partial(K \cap BooleanKeys, BOOLEAN),
                  r \in Partial(K \cap RuleSetKeys, RuleSetValues)} \cup {NoConfig}
      Envs(K) ==
        {b @@ r @@ f :
           b \in Partial({OverrideVar[k] : k \in K \cap BooleanKeys}, BooleanTexts),
           r \in Partial({OverrideVar[k] : k \in K \cap RuleSetKeys}, RuleSetTexts),
           f \in Partial({FallbackVar[k] : k \in K \cap DOMAIN FallbackVar}, FallbackTexts)}
  IN
  /\ disk = NoFile
  /\ data = openSync(disk)
  /\ changed = FALSE
  /\ isEslintCli = FALSE
  /\ temporaryFileArgs = NoArgs
  /\ call = Call("init", 0, "", fromConfig, <<>>, EmptyMap)
  /\ codec = NoCodec
  /\ procs = NoProcs
  /\ tmp = NoTmp
  /\ CLI_ARGS = {}
  /\ ANY_CONFIG_DISABLED = FALSE
  /\ fileLock = NoLock
  /\ \E K \in OptionSets :
     \E e \in Envs(K), s \in Configs(K), o \in Configs(K) :
       context = [env |-> e, settings |-> s, options |-> o]

\* configure.create: the args of the file from the shared settings and the
\* rule's options, pushed for postprocess
Create(filename) ==
  /\ call.op = "init"
  /\ \E args \in {ruleOverrideConfigToArgs(context.env, context.settings,
                                           context.options)} :
       /\ temporaryFileArgs' =
            [f \in DOMAIN temporaryFileArgs \cup {filename} |->
               IF f = filename THEN args ELSE temporaryFileArgs[f]]
       /\ call' = Call("configure", call.seq, filename, args, <<>>, EmptyMap)
       /\ ANY_CONFIG_DISABLED' = (ANY_CONFIG_DISABLED \/ args.disable)
       /\ CLI_ARGS' = IF isEslintCli THEN CLI_ARGS \cup {seatbeltFileOf(args)}
                      ELSE CLI_ARGS
  /\ UNCHANGED <<disk, data, changed, isEslintCli, codec, procs, tmp, context,
                 fileLock>>

\* a file is linted with the configure rule (Create) or without it
\* (Preprocess), and its diagnostics, none here, are postprocessed
ConfigNext ==
  \/ \E f \in LintedFiles : Create(f)
  \/ \E f \in LintedFiles : Preprocess(f)
  \/ \E f \in LintedFiles : Postprocess(f, <<>>)

SpecConfig == InitConfig /\ [][ConfigNext]_vars

C27_DirtyIffRecordsChanged ==
  [][call'.op = "updateMaxErrors" =>
       (changed' <=> (changed \/ toJSON(data') # toJSON(data)))]_vars

\* C28: the data lines toDataString emits are in ascending order of the whole
\* encoded line, across all files, and the output is the same for every
\* order in which the files and the rules of each file were inserted
C28_SortedWhateverOrder ==
  codec.stage = "written" =>
    LET Orders(S) ==
          {o \in [1..Cardinality(S) -> S] : \A i, k \in 1..Cardinality(S) : o[i] = o[k] => i = k}
        d == codec.data
        lines == SelectSeq(SplitAfterNewline(codec.output, <<>>), IsDataLine)
    IN  /\ \A i, k \in 1..Len(lines) : i < k => ~TextBefore(lines[k], lines[i])
        /\ \A files \in Orders(DOMAIN d) :
           \A rulesOf \in [DOMAIN d -> UNION {Orders(DOMAIN d[f].maxErrors) : f \in DOMAIN d}] :
             (\A f \in DOMAIN d : rulesOf[f] \in Orders(DOMAIN d[f].maxErrors)) =>
               toDataStringInOrder(codec.comments, d, files, rulesOf) = codec.output

\* a store of two files written as two data lines, which one of the
\* insertion orders would give the other way round if they were not sorted
C28_Witness ==
  /\ codec.stage = "written"
  /\ ValidStore(codec.data)
  /\ Cardinality(DOMAIN codec.data) = 2
  /\ Len(SelectSeq(SplitAfterNewline(codec.output, <<>>), IsDataLine)) = 2
  /\ \E f, g \in DOMAIN codec.data :
       /\ f # g
       /\ toDataStringUnsorted(codec.comments, codec.data, <<f, g>>,
                               [h \in DOMAIN codec.data |->
                                  SeqOfSet(DOMAIN codec.data[h].maxErrors)])
            # codec.output

\* C29: every postprocess under a policy neither frozen nor disabled returns
\* with the dirty flag clear; when the reconciliation changed, added or
\* removed an allowance the record file then holds the store's
\* serialization, flushChanges reports a write exactly in that case, and
\* without a write the record file is as it was
C29_FlushPerFile ==
  [][(/\ call'.op = "postprocess"
      /\ ~call'.args.frozen
      /\ ~call'.args.disable) =>
       LET reconciled == \/ call'.removedRules # {}
                         \/ call'.increasedRulesCount > 0
                         \/ call'.decreasedRulesCount > 0
       IN  /\ ~call'.threw
           /\ ~changed'
           /\ reconciled => disk' = FileText(toDataString(data'))
           /\ call'.updated <=> reconciled
           /\ ~call'.updated => disk' = disk]_vars

\* a postprocess that lowered an allowance and wrote the record file
C29_Witness ==
  /\ call.op = "postprocess"
  /\ ~call.args.frozen
  /\ ~call.args.disable
  /\ call.decreasedRulesCount > 0
  /\ call.updated
  /\ ~changed
  /\ disk = FileText(toDataString(data))
  /\ \E r \in Rules : 0 < After(r) /\ After(r) < Before(r) /\ OnDisk(r) = After(r)

\* C30: with threadsafe, the reload at the start of postprocess leaves in
\* memory exactly the records of the record file (none when there is no
\* record file) with the dirty flag clear, and the update is made on the
\* records of the record file as it is then: the other files' records in
\* memory afterwards are those of the record file, what another process
\* flushed included, and the file's own allowances are at most those of the
\* record file
C30_ReloadBeforeReconcile ==
  [][\A p \in ProcIds :
       procs[p].args.threadsafe =>
         /\ (procs[p].pc = "loaded" /\ procs'[p].pc = "reloaded") =>
              /\ toJSON(procs'[p].data) = toJSON(openSync(disk))
              /\ ~procs'[p].changed
         /\ (procs[p].pc = "reloaded" /\ procs'[p].pc \in {"flushing", "done"}) =>
              /\ \A f \in Files \ {ProcFile(p)} :
                   getMaxErrors(procs'[p].data, f) = getMaxErrors(openSync(disk), f)
              /\ \A r \in Rules :
                   Allowance(procs'[p].data, ProcFile(p), r)
                     <= Allowance(openSync(disk), ProcFile(p), r)]_vars

\* a threadsafe process that has reloaded after the other process flushed a
\* lowered allowance, and holds that allowance
C30_Witness ==
  \E p, q \in ProcIds :
    /\ p # q
    /\ procs[p].args.threadsafe
    /\ procs[p].pc = "reloaded"
    /\ procs[q].pc = "done"
    /\ procs[q].updated
    /\ \E r \in Rules :
         /\ 0 < Allowance(openSync(disk), ProcFile(q), r)
         /\ Allowance(openSync(disk), ProcFile(q), r) < MaxCount
         /\ Allowance(procs[p].data, ProcFile(q), r)
              = Allowance(openSync(disk), ProcFile(q), r)

C33_KeepAllRemovalPassIsNoOp ==
  [][(call'.op = "updateMaxErrors" /\ call.op \in Idle /\ call'.args.keepRules.all) =>
       \E other \in {updateMaxErrors(data, changed, call'.filename,
                                     [call'.args EXCEPT !.verbose = ~@],
                                     call'.ruleToErrorCount)} :
         /\ data' = other.data
         /\ changed' = other.changed
         /\ call'.removedRules = other.removedRules
         /\ call'.increasedRulesCount = other.increasedRulesCount
         /\ call'.decreasedRulesCount = other.decreasedRulesCount]_vars

\* a verbose call with keepRules = "all" has found a recorded rule that was
\* not observed and one recorded with 0, and removed nothing
C33_Witness ==
  /\ call.op = "updateMaxErrors"
  /\ call.args.keepRules.all /\ call.args.verbose
  /\ \E r \in DOMAIN call.before.map : r \notin DOMAIN call.ruleToErrorCount
  /\ \E r \in DOMAIN call.before.map : call.before.map[r] = 0
  /\ call.removedRules = {}

\* the record file after the exit handler: no record of a source file that
\* is not on disk, and of each source file that is, the records the sweep
\* found in the record file
SweptAtExit ==
  LET now == openSync(disk)
      found == openSync(call.swept)
  IN  /\ DOMAIN now \subseteq call.existing
      /\ \A f \in call.existing :
           /\ f \in DOMAIN now <=> f \in DOMAIN found
           /\ getMaxErrors(now, f) = getMaxErrors(found, f)

\* C34 (as stated): when the exit handler of a CLI run has finished, the
\* record file the run configured or reconciled files against holds no
\* record of a source file that does not exist, and the records of existing
\* source files are the ones read at the start of the sweep.
C34_SweepAtExit ==
  (call.op = "exit" /\ (CLI_ARGS # {} \/ call.seq > 0)) => SweptAtExit

\* C34 (amended): the same, for a record file named by args that
\* pushFileArgs collected (CLI_ARGS) in a run none of whose configurations
\* disabled seatbelt.
C34_SweepOfPushedArgs ==
  (call.op = "exit" /\ CLI_ARGS # {} /\ ~ANY_CONFIG_DISABLED) => SweptAtExit

\* the sweep dropped the records of a source file that is gone and kept the
\* records of one that exists
C34_Witness ==
  /\ call.op = "exit" /\ CLI_ARGS # {} /\ ~ANY_CONFIG_DISABLED
  /\ \E f \in DOMAIN openSync(call.swept) : f \notin call.existing
  /\ \E f \in DOMAIN openSync(disk) : DOMAIN getMaxErrors(openSync(disk), f).map # {}

\* ---------------------------------------------------------------------
\* FileLock: the advisory lock on a marker file.  fileLock.exists is the
\* marker file of one lock filename; fd[i] is `this.fd !== undefined` of
\* instance i (each instance in a process of its own); deadline[i] is the
\* deadline of the waitLock instance i is in, or NoDeadline; now is
\* Date.now(); last is the call that ran last and how it ended.
LockInstances == {1, 2, 3}
\* largest timeoutMs passed to waitLock
MaxTimeout == 2
\* latest time at which a waitLock starts
MaxClock == 2
\* the clock of the model stops here, later than every deadline
ClockEnd == MaxClock + MaxTimeout + 1

NoDeadline == -1
LockCall(op, by, result) == [op |-> op, by |-> by, result |-> result]

\* no instance holds a lock; the marker file may be there, left by a process
\* that died holding it
InitLock ==
  /\ disk = NoFile
  /\ data = openSync(disk)
  /\ changed = FALSE
  /\ isEslintCli = FALSE
  /\ temporaryFileArgs = NoArgs
  /\ call = Call("init", 0, "", fromConfig, <<>>, EmptyMap)
  /\ codec = NoCodec
  /\ procs = NoProcs
  /\ tmp = NoTmp
  /\ context = NoContext
  /\ CLI_ARGS = {}
  /\ ANY_CONFIG_DISABLED = FALSE
  /\ \E stale \in BOOLEAN :
       fileLock = [exists |-> stale,
                   fd |-> [i \in LockInstances |-> FALSE],
                   deadline |-> [i \in LockInstances |-> NoDeadline],
                   now |-> 0,
                   last |-> LockCall("none", 0, "none")]

LockRest == <<disk, data, changed, isEslintCli, temporaryFileArgs, call, codec, procs,
              tmp, context, CLI_ARGS, ANY_CONFIG_DISABLED>>

\* tryLock that opens the marker file without O_EXCL
tryLockNoExcl(l, i) ==
  IF l.fd[i] THEN [lock |-> l, result |-> "already locked"]
  ELSE [lock |-> [l EXCEPT !.exists = TRUE, !.fd[i] = TRUE], result |-> "true"]

\* FileLock.tryLock of instance i: assertNotLocked throws, openSync with
\* O_CREAT | O_EXCL fails with EEXIST when the marker file exists
tryLock(l, i) ==
  IF l.fd[i] THEN [lock |-> l, result |-> "already locked"]
  ELSE IF l.exists THEN [lock |-> l, result |-> "false"]
  ELSE [lock |-> [l EXCEPT !.exists = TRUE, !.fd[i] = TRUE], result |-> "true"]

\* FileLock.unlock of instance i
unlock(l, i) ==
  IF l.fd[i] THEN [l EXCEPT !.exists = FALSE, !.fd[i] = FALSE] ELSE l

\* waitLock that never looks at the deadline
pastDeadlineNever(l, i) == FALSE

\* the deadline test of waitLock: Date.now() > deadline
pastDeadline(l, i) == l.now > l.deadline[i]

\* time passes
Tick ==
  /\ fileLock.now < MaxClock
  /\ fileLock' = [fileLock EXCEPT !.now = @ + 1]
  /\ UNCHANGED LockRest

\* lock.tryLock()
TryLock(i) ==
  /\ fileLock.deadline[i] = NoDeadline
  /\ \E t \in {tryLock(fileLock, i)} :
       fileLock' = [t.lock EXCEPT !.last = LockCall("tryLock", i, t.result)]
  /\ UNCHANGED LockRest

\* lock.unlock()
Unlock(i) ==
  /\ fileLock.deadline[i] = NoDeadline
  /\ fileLock' = [unlock(fileLock, i) EXCEPT
                    !.last = LockCall("unlock", i, IF fileLock.fd[i] THEN "unlocked"
                                                   ELSE "not locked")]
  /\ UNCHANGED LockRest

\* lock.waitLock(timeoutMs) is called: the deadline is taken
WaitLock(i, timeoutMs) ==
  /\ fileLock.deadline[i] = NoDeadline
  /\ fileLock.now <= MaxClock
  /\ fileLock' = [fileLock EXCEPT !.deadline[i] = fileLock.now + timeoutMs,
                                  !.last = LockCall("waitLock", i, "waiting")]
  /\ UNCHANGED LockRest

\* one turn of the loop of waitLock: tryLock, the deadline test, and
\* Atomics.wait for 1 ms, during which the clock advances
WaitLockStep(i) ==
  /\ fileLock.deadline[i] # NoDeadline
  /\ \E t \in {tryLock(fileLock, i)} :
       IF t.result # "false"
       THEN fileLock' = [t.lock EXCEPT
                           !.deadline[i] = NoDeadline,
                           !.last = LockCall("waitLock", i,
                                             IF t.result = "true" THEN "returned"
                                             ELSE t.result)]
       ELSE IF pastDeadline(fileLock, i)
       THEN fileLock' = [fileLock EXCEPT
                           !.deadline[i] = NoDeadline,
                           !.last = LockCall("waitLock", i, "timed out")]
       ELSE \E passed \in 1..2 :
              fileLock' = [fileLock EXCEPT
                             !.now = IF @ + passed > ClockEnd THEN ClockEnd ELSE @ + passed,
                             !.last = LockCall("waitLock", i, "waiting")]
  /\ UNCHANGED LockRest

LockNext ==
  \/ Tick
  \/ \E i \in LockInstances : TryLock(i)
  \/ \E i \in LockInstances : Unlock(i)
  \/ \E i \in LockInstances, timeoutMs \in 0..MaxTimeout : WaitLock(i, timeoutMs)
  \/ \E i \in LockInstances : WaitLockStep(i)

SpecLock == InitLock /\ [][LockNext]_vars

\* a process in waitLock keeps running: it is in a loop of 1 ms waits
SpecLockLive == SpecLock /\ \A i \in LockInstances : WF_vars(WaitLockStep(i))

C36_WaitLockIsBounded ==
  /\ [][\A i \in LockInstances :
          (WaitLockStep(i) /\ ~fileLock.fd[i]) =>
            \/ /\ fileLock'.last = LockCall("waitLock", i, "waiting")
               /\ fileLock'.deadline[i] # NoDeadline
            \/ /\ fileLock'.last = LockCall("waitLock", i, "returned")
               /\ fileLock'.deadline[i] = NoDeadline
               /\ fileLock'.fd[i] /\ fileLock'.exists
            \/ /\ fileLock'.last = LockCall("waitLock", i, "timed out")
               /\ fileLock'.deadline[i] = NoDeadline
               /\ fileLock.exists /\ fileLock.now > fileLock.deadline[i]
               /\ ~fileLock'.fd[i]
               /\ fileLock'.exists = fileLock.exists /\ fileLock'.fd = fileLock.fd]_vars
  /\ \A i \in LockInstances :
       (fileLock.deadline[i] # NoDeadline) ~> (fileLock.deadline[i] = NoDeadline)

\* a waitLock has timed out on a marker file that no instance holds, left by
\* a process that died holding the lock
C36_Witness ==
  /\ fileLock.last.op = "waitLock" /\ fileLock.last.result = "timed out"
  /\ fileLock.exists
  /\ \A j \in LockInstances : ~fileLock.fd[j]
  /\ fileLock.now > MaxClock

\* C37: filenames() yields exactly the source files that have at least one
\* record: whatever reconciliations were made, every file it yields has a
\* recorded rule, and getMaxErrors returns absent for a file that has none
\* (one whose last recorded rule was removed).
C37_FilenamesHaveRecords ==
  \A f \in Files :
    /\ f \in filenames(data) <=> DOMAIN getMaxErrors(data, f).map # {}
    /\ DOMAIN getMaxErrors(data, f).map = {} => ~getMaxErrors(data, f).has

\* C38: whenever postprocess returns, its result starts with one diagnostic
\* per input diagnostic, in the input order, with the same rule and place and
\* a severity not above the input's; what follows are synthetic frozen
\* diagnostics only (line 1, column 0, severity 2); and the countable
\* diagnostics of one rule all get the same severity.
C38_NothingDroppedOrEscalated ==
  (call.op = "postprocess" /\ ~call.threw) =>
    /\ Len(call.result) >= Len(call.messages)
    /\ \A i \in 1..Len(call.messages) :
         /\ call.result[i].ruleId = call.messages[i].ruleId
         /\ call.result[i].line = call.messages[i].line
         /\ call.result[i].column = call.messages[i].column
         /\ call.result[i].suppressed = call.messages[i].suppressed
         /\ call.result[i].severity <= call.messages[i].severity
    /\ \A i \in (Len(call.messages) + 1)..Len(call.result) :
         /\ call.result[i].note.kind = "frozen"
         /\ call.result[i].line = 1 /\ call.result[i].column = 0
         /\ call.result[i].severity = 2
    /\ \A i, j \in 1..Len(call.messages) :
         (/\ isCountableLintError(call.messages[i])
          /\ isCountableLintError(call.messages[j])
          /\ call.messages[i].ruleId = call.messages[j].ruleId) =>
            call.result[i].severity = call.result[j].severity

\* postprocess has returned the two errors of one rule, both demoted
C38_Witness ==
  /\ call.op = "postprocess" /\ ~call.threw /\ ~call.args.disable
  /\ Len(call.messages) = 2 /\ Len(call.result) = 2
  /\ isCountableLintError(call.messages[1])
  /\ call.messages[2] = call.messages[1]
  /\ call.result[1].severity = 1 /\ call.result[2].severity = 1

\* ---------------------------------------------------------------------
\* SeatbeltStateFile, the state-file variant of the store
\* (SeatbeltStateFile.ts).  Its updateMaxErrors has the set pass of
\* SeatbeltFile.updateMaxErrors; its removal pass skips the recorded rules
\* that are absent from ruleToErrorCount and goes on with the ones present.
SeatbeltStateFile_updateMaxErrors(d, ch, filename, args, ruleToErrorCount) ==
  LET d1 == materialize(d, filename)
      hasFile == filename \in DOMAIN d1
      maxErrors == IF hasFile THEN d1[filename].maxErrors ELSE EmptyMap
      old(r) == IF r \in DOMAIN maxErrors THEN maxErrors[r] ELSE 0
      setRules == {r \in DOMAIN ruleToErrorCount :
                     /\ ruleToErrorCount[r] # old(r)
                     /\ \/ ruleSetHas(args.allowIncreaseRules, r)
                        \/ ruleToErrorCount[r] < old(r)}
      afterSet == [r \in DOMAIN maxErrors \cup setRules |->
                     IF r \in setRules THEN ruleToErrorCount[r] ELSE maxErrors[r]]
      increasedRulesCount == Cardinality({r \in setRules : ruleToErrorCount[r] > old(r)})
      decreasedRulesCount == Cardinality({r \in setRules : ruleToErrorCount[r] < old(r)})
      removedRules ==
        IF args.verbose \/ ~args.keepRules.all
        THEN {r \in DOMAIN afterSet :
                r \in DOMAIN ruleToErrorCount /\ ~ruleSetHas(args.keepRules, r)}
        ELSE {}
      afterRemove == [r \in DOMAIN afterSet \ removedRules |-> afterSet[r]]
      commit == ~args.frozen /\ (increasedRulesCount > 0 \/ decreasedRulesCount > 0
                                  \/ removedRules # {})
      d2 == IF hasFile
            THEN [d1 EXCEPT ![filename].maxErrors = afterRemove]
            ELSE IF commit
                 THEN [f \in DOMAIN d1 \cup {filename} |->
                         IF f = filename THEN FileState(<<>>, TRUE, afterRemove) ELSE d1[f]]
                 ELSE d1
  IN [data |-> d2,
      changed |-> (ch \/ commit),
      removedRules |-> removedRules,
      increasedRulesCount |-> increasedRulesCount,
      decreasedRulesCount |-> decreasedRulesCount]

\* stateFile.updateMaxErrors(filename, args, ruleToErrorCount)
StateFileUpdateMaxErrors(filename, args, ruleToErrorCount) ==
  /\ call.op \in Idle
  /\ call.seq < MaxCalls
  /\ \E u \in {SeatbeltStateFile_updateMaxErrors(data, changed, filename, args,
                                                  ruleToErrorCount)} :
       /\ data' = u.data
       /\ changed' = u.changed
       /\ call' = [Call("SeatbeltStateFile.updateMaxErrors", call.seq + 1, filename,
                        args, <<>>, ruleToErrorCount) EXCEPT
            !.before = getMaxErrors(data, filename),
            !.removedRules = u.removedRules,
            !.increasedRulesCount = u.increasedRulesCount,
            !.decreasedRulesCount = u.decreasedRulesCount]
  /\ UNCHANGED <<disk, isEslintCli, temporaryFileArgs>>
  /\ UNCHANGED <<codec, procs, tmp, context, CLI_ARGS, ANY_CONFIG_DISABLED, fileLock>>

StateFileNext ==
  \E f \in LintedFiles, args \in StoreArgs, ruleToErrorCount \in Observations :
    StateFileUpdateMaxErrors(f, args, ruleToErrorCount)

SpecStateFile == InitStore /\ [][StateFileNext]_vars

\* C39: after a non-frozen SeatbeltStateFile.updateMaxErrors, a recorded rule
\* observed with a count below its allowance, and not covered by keepRules,
\* has the observed count as its allowance, and every recorded rule that is
\* in the observation is still recorded.
C39_StateFileTightensAndKeeps ==
  (call.op = "SeatbeltStateFile.updateMaxErrors" /\ ~call.args.frozen) =>
    \A r \in DOMAIN call.ruleToErrorCount \cap DOMAIN call.before.map :
      /\ RecordedAfter(r)
      /\ (Observed(r) < Before(r) /\ ~Kept(r)) => After(r) = Observed(r)

\* C40: postprocess of a file works under the policy the configure rule
\* pushed for it when it pushed one, and otherwise under the policy of the
\* empty configuration and the environment; after it no policy is pending
\* for the file.
C40_PolicyHandOff ==
  [][(call'.op = "postprocess" /\ call.op \in {"preprocess", "configure"}) =>
       /\ call'.filename \notin DOMAIN temporaryFileArgs'
       /\ call.op = "configure" =>
            /\ temporaryFileArgs[call.filename] = call.args
            /\ call'.args = call.args
       /\ call.op = "preprocess" =>
            call'.args = fromConfigOf(Spread(fromFallbackEnv(context.env),
                                             fromEnvOverrides(context.env)))]_vars

\* postprocess has taken a pushed policy that the environment alone does
\* not give, and nothing is pending
C40_Witness ==
  /\ call.op = "postprocess"
  /\ context.options # NoConfig
  /\ call.args # fromConfigOf(Spread(fromFallbackEnv(context.env),
                                     fromEnvOverrides(context.env)))
  /\ call.args.frozen /\ DOMAIN context.env # {}
  /\ temporaryFileArgs = NoArgs
====
